---- MODULE Spec2Model ----
(***************************************************************************)
(* A model of the vibeui terminal UI runtime: the double-buffered cell     *)
(* grid (render/buffer.rs), the component tree with its event dispatch     *)
(* (components/*.rs, app/app.rs) and the tick loop of App::run.            *)
(***************************************************************************)
EXTENDS Integers, Sequences, FiniteSets, TLC

(***************************************************************************)
(* Bounds of the model.                                                    *)
(***************************************************************************)
\* number of buffer operations in one run of SpecBuf
MaxOps == 4
\* longest text (in bytes) typed into a text input
MaxText == 1
\* number of ticks of App::run in one run of SpecApp
MaxTicks == 2
\* number of events sent to the application in one run of SpecApp
MaxSent == 2

(***************************************************************************)
(* Inputs of the buffer model.                                             *)
(***************************************************************************)
\* grid dimensions (width, height) used by new() and resize()
Dims == {<<3, 2>>, <<3, 3>>, <<5, 5>>, <<10, 10>>}
\* positions used by draw_char; (4,1) falls outside the grids of width 3
\* and (2,2) outside the grid of height 2
DrawPos == {<<0, 0>>, <<2, 2>>, <<4, 1>>}

(***************************************************************************)
(* style/style.rs: Style.  The model keeps foreground, background and      *)
(* bold; the other seven attribute flags are treated by the code exactly   *)
(* like bold.                                                              *)
(***************************************************************************)
DefaultStyle == [fg |-> "None", bg |-> "None", bold |-> FALSE]
RedStyle == [fg |-> "Red", bg |-> "None", bold |-> FALSE]
Styles == {DefaultStyle, RedStyle}
\* (character, style) pairs used by draw_char
Brushes == {<<"X", DefaultStyle>>, <<"X", RedStyle>>, <<" ", RedStyle>>}

\* BufferCell::default
DefaultCell == [ch |-> " ", style |-> DefaultStyle, dirty |-> FALSE]

\* u16 arithmetic of a release build (wrapping)
U16(n) == n % 65536

Min(a, b) == IF a < b THEN a ELSE b

\* the function f with its values computed once (f @@ <<>> equals f)
Computed(f) == f @@ <<>>

VARIABLES
    width,        \* RenderBuffer.width
    height,       \* RenderBuffer.height
    cells,        \* RenderBuffer.cells      (Vec, here 1-based)
    prev_cells,   \* RenderBuffer.prev_cells (Vec, here 1-based)
    out,          \* the commands queued by the last render_to_terminal
    bufOp,        \* the last buffer operation and its arguments
    hist,         \* history of the frames handed to render_to_terminal
    pending,      \* what happened since the last render_to_terminal
    nops,         \* number of buffer operations so far
    comps,        \* the components: App.components and the children of "root"
    childOrder,   \* iteration order of the HashMap Container.children of "root"
    running,      \* App.running
    appOrder,     \* iteration order of the HashMap App.components
    pc,           \* where App::run stands
    queue,        \* the events sent and not yet taken by next_event
    tickLog,      \* the steps App::run has made in the current tick
    nticks,       \* number of ticks completed
    nsent,        \* number of events sent so far
    geo           \* a layout computation: its inputs and its result

bufVars == <<width, height, cells, prev_cells, out, bufOp, hist, pending, nops>>

evVars == <<comps, childOrder, running>>

appVars == <<appOrder, pc, queue, tickLog, nticks, nsent>>

vars == <<width, height, cells, prev_cells, out, bufOp, hist, pending, nops,
          comps, childOrder, running, appOrder, pc, queue, tickLog, nticks, nsent,
          geo>>

(***************************************************************************)
(* render/buffer.rs                                                        *)
(***************************************************************************)
\* RenderBuffer::new: both grids hold width*height default cells
NewGrid(w, h) == Computed([i \in 1..(w * h) |-> DefaultCell])

\* the index computation `(y * self.width + x) as usize`, done in u16
CellIndex(x, y, w) == U16(U16(y * w) + x)

\* RenderBuffer::get_cell: an Option, None is <<>> and Some(c) is <<c>>
get_cell(cs, w, h, x, y) ==
    IF x < w /\ y < h THEN <<cs[CellIndex(x, y, w) + 1]>> ELSE <<>>

\* RenderBuffer::set_cell (draw_char forwards to it)
set_cell(cs, w, h, x, y, ch, st) ==
    IF x < w /\ y < h
    THEN LET i == CellIndex(x, y, w) + 1
             old == cs[i]
         IN [cs EXCEPT ![i] = [ch |-> ch, style |-> st,
                               dirty |-> (old.ch # ch \/ old.style # st)]]
    ELSE cs

\* RenderBuffer::clear
clear(cs) == Computed([i \in DOMAIN cs |-> DefaultCell])

\* the copy loop of RenderBuffer::resize: k counts the iterations of
\* `for y in 0..min_height { for x in 0..min_width {..} }`
RECURSIVE CopyLoop(_, _, _, _, _, _, _)
CopyLoop(k, minW, minH, oldCs, oldW, newCs, newW) ==
    IF k >= minW * minH THEN newCs
    ELSE LET x == k % minW
             y == k \div minW
             old_index == CellIndex(x, y, oldW)
             new_index == CellIndex(x, y, newW)
         IN CopyLoop(k + 1, minW, minH, oldCs, oldW,
                     [newCs EXCEPT ![new_index + 1] = oldCs[old_index + 1]],
                     newW)

\* resize that reallocates without copying the overlap
ResizeGrid_NoCopy(cs, oldW, oldH, w, h) ==
    IF w = oldW /\ h = oldH THEN cs ELSE NewGrid(w, h)

\* RenderBuffer::resize applied to one of the two grids
ResizeGrid(cs, oldW, oldH, w, h) ==
    IF w = oldW /\ h = oldH THEN cs
    ELSE CopyLoop(0, Min(oldW, w), Min(oldH, h), cs, oldW, NewGrid(w, h), w)

\* Renderer::style_to_commands
style_to_commands(st) ==
    (IF st.fg # "None" THEN <<[op |-> "SetForegroundColor", color |-> st.fg]>> ELSE <<>>)
    \o (IF st.bg # "None" THEN <<[op |-> "SetBackgroundColor", color |-> st.bg]>> ELSE <<>>)
    \o (IF st.bold THEN <<[op |-> "SetAttribute", attr |-> "Bold"]>> ELSE <<>>)

\* the two grids after `std::mem::swap(&mut self.cells, &mut self.prev_cells)`
SwapBuffers(cs, pcs) == [cells |-> pcs, prev_cells |-> cs]

\* a diff test that forgets the style
CellDiffers_ChOnly(cell, prev_cell) == cell.ch # prev_cell.ch

\* the test `cell.ch != prev_cell.ch || cell.style != prev_cell.style`
CellDiffers(cell, prev_cell) ==
    cell.ch # prev_cell.ch \/ cell.style # prev_cell.style

\* the indices at which the scan of render_to_terminal finds a difference,
\* in the order of `self.cells.iter().enumerate()`
DiffIndices(cs, pcs) ==
    SelectSeq([i \in 1..Len(cs) |-> i - 1],
              LAMBDA index : CellDiffers(cs[index + 1], pcs[index + 1]))

\* the body of the scan loop of render_to_terminal for one differing cell;
\* s is the scan state (x, y, current_style, queued commands) and
\* current_style is an Option: None is <<>> and Some(st) is <<st>>
ScanStep(index, cell, w, s) ==
    LET cell_x == U16(index) % w
        cell_y == U16(index) \div w
        s1 == IF cell_x # s.x \/ cell_y # s.y
              THEN [s EXCEPT !.out = Append(@, [op |-> "MoveTo", x |-> cell_x, y |-> cell_y]),
                             !.x = cell_x, !.y = cell_y]
              ELSE s
        s2 == IF <<cell.style>> # s1.cur
              THEN [s1 EXCEPT !.out = @ \o style_to_commands(cell.style),
                              !.cur = <<cell.style>>]
              ELSE s1
        s3 == [s2 EXCEPT !.out = Append(@, [op |-> "Print", ch |-> cell.ch]),
                         !.x = U16(@ + 1)]
    IN IF s3.x >= w THEN [s3 EXCEPT !.x = 0, !.y = U16(@ + 1)] ELSE s3

\* the scan loop of render_to_terminal: the cells are visited in index
\* order and only the differing ones have an effect.  ScanLoop runs the
\* loop body for the differing indices todo[lo..hi] in order (first half,
\* then second half; the test on s1 is always true).
RECURSIVE ScanLoop(_, _, _, _, _, _)
ScanLoop(todo, lo, hi, cs, w, s) ==
    IF lo > hi THEN s
    ELSE IF lo = hi THEN ScanStep(todo[lo], cs[todo[lo] + 1], w, s)
    ELSE LET mid == (lo + hi) \div 2
             s1 == ScanLoop(todo, lo, mid, cs, w, s)
         IN IF s1.x >= 0 THEN ScanLoop(todo, mid + 1, hi, cs, w, s1) ELSE s1

\* RenderBuffer::render_to_terminal: the grids after the swap and the
\* commands queued (terminal I/O succeeds)
render_to_terminal(cs, pcs, w) ==
    LET sw == SwapBuffers(cs, pcs)
        todo == DiffIndices(sw.cells, sw.prev_cells)
        s == ScanLoop(todo, 1, Len(todo), sw.cells, w,
                      [x |-> 0, y |-> 0, cur |-> <<>>, out |-> <<>>])
    IN [cells |-> sw.cells, prev_cells |-> sw.prev_cells,
        out |-> IF s.cur # <<>> THEN Append(s.out, [op |-> "ResetColor"]) ELSE s.out]

(***************************************************************************)
(* The terminal: where the characters of a command stream land.  The       *)
(* cursor starts at (0,0) (Renderer::present moves it there), MoveTo sets  *)
(* it and a printed character advances it, wrapping at the right edge.     *)
(***************************************************************************)
RECURSIVE TermWrites(_, _, _, _, _)
TermWrites(cmds, i, cx, cy, w) ==
    IF i > Len(cmds) THEN {}
    ELSE LET c == cmds[i]
         IN IF c.op = "MoveTo" THEN TermWrites(cmds, i + 1, c.x, c.y, w)
            ELSE IF c.op = "Print"
                 THEN {<<cx, cy>>} \cup
                      (IF cx + 1 >= w THEN TermWrites(cmds, i + 1, 0, cy + 1, w)
                                      ELSE TermWrites(cmds, i + 1, cx + 1, cy, w))
                 ELSE TermWrites(cmds, i + 1, cx, cy, w)

\* the positions written by the last render_to_terminal
WrittenPositions == TermWrites(out, 1, 0, 0, width)

\* the positions where two frames of the current dimensions differ
FrameDiff(f, g) ==
    {p \in (0..(width - 1)) \X (0..(height - 1)) :
        LET i == p[2] * width + p[1] + 1
        IN f[i].ch # g[i].ch \/ f[i].style # g[i].style}

(***************************************************************************)
(* The component tree.  The application owns a container "root" and a      *)
(* button "P"; the container owns the buttons "A" and "B" and the text     *)
(* inputs "T" and "U", added in this order.                                *)
(***************************************************************************)
\* the names in App.components
TopLevel == {"root", "P"}
\* the children of the container, in the order of the add_child calls
Inserted == <<"A", "B", "T", "U">>
Children == {Inserted[i] : i \in DOMAIN Inserted}
Leaves == Children \cup {"P"}

\* BaseComponent plus the fields of Button and TextInput
\* (max_length is an Option: None is <<>> and Some(n) is <<n>>)
Component(kind, x, y, w, h) ==
    [kind |-> kind, x |-> x, y |-> y, w |-> w, h |-> h, visible |-> TRUE,
     is_hovered |-> FALSE, is_active |-> FALSE,
     is_focused |-> FALSE, text |-> <<>>, cursor_position |-> 0,
     max_length |-> <<>>]

\* TextInput::with_max_length
with_max_length(c, n) == [c EXCEPT !.max_length = <<n>>]

\* the max_length given to the text input "U"
ULimit == 0

\* the tree as built: Button::new / TextInput::new / Container::new followed
\* by set_position and set_size (and with_max_length for "U")
BuiltTree ==
    [n \in TopLevel \cup Children |->
        CASE n = "root" -> Component("Container", 0, 0, 10, 1)
          [] n = "P" -> Component("Button", 0, 0, 10, 10)
          [] n = "A" -> Component("Button", 0, 0, 10, 10)
          [] n = "B" -> Component("Button", 0, 0, 10, 10)
          [] n = "T" -> Component("TextInput", 0, 12, 10, 1)
          [] n = "U" -> with_max_length(Component("TextInput", 5, 12, 10, 1), ULimit)]

\* all orders in which a HashMap over the set S can iterate
Orders(S) ==
    {q \in [1..Cardinality(S) -> S] : \A a \in S : \E i \in DOMAIN q : q[i] = a}

Reverse(q) == [i \in 1..Len(q) |-> q[Len(q) + 1 - i]]

(***************************************************************************)
(* events/event.rs and events/key.rs: the events of the model              *)
(***************************************************************************)
\* pointer positions: over A, B and P; over T; over T and U; over U; nowhere
Points == {<<5, 5>>, <<2, 12>>, <<7, 12>>, <<12, 12>>, <<20, 20>>}
\* pointer positions of the mouse moves and releases
MovePoints == {<<5, 5>>, <<20, 20>>}
ReleasePoints == {<<5, 5>>}
\* Key::Char(c): the bytes of the characters that can be typed
KeyChars == {<<"a">>}
\* the keys TextInput::handle_event has an arm for
EditKeys == {"Backspace", "Delete", "Left", "Right", "Home", "End", "Esc"}
\* keys that fall to the `_ => {}` arm
OtherKeys == {"Enter"}
\* the events without a position
BroadcastTypes == {"Resize", "FocusGained", "FocusLost", "Quit", "Timer", "Custom"}

PointerEvents(type, P) == {[type |-> type, x |-> p[1], y |-> p[2]] : p \in P}
ClickEvents == PointerEvents("MouseClick", Points)
ReleaseEvents == PointerEvents("MouseRelease", ReleasePoints)
KeyEvents ==
    {[type |-> "KeyPress", key |-> "Char", c |-> c] : c \in KeyChars}
    \cup {[type |-> "KeyPress", key |-> k] : k \in EditKeys \cup OtherKeys}
Events ==
    ClickEvents \cup PointerEvents("MouseMove", MovePoints)
    \cup ReleaseEvents \cup KeyEvents
    \cup {[type |-> "KeyRelease", key |-> "Enter"]}
    \cup {[type |-> t] : t \in BroadcastTypes}

(***************************************************************************)
(* components/button.rs, components/text_input.rs                          *)
(***************************************************************************)
\* the hit test `*x >= bx && *x < bx + bw && *y >= by && *y < by + bh`
Hit(c, ev) ==
    /\ ev.x >= c.x /\ ev.x < U16(c.x + c.w)
    /\ ev.y >= c.y /\ ev.y < U16(c.y + c.h)

\* the answer of a handle_event call: the component afterwards, the bool
\* returned and whether Button::handle_click ran
Answer(c, handled, clicked) == [c |-> c, handled |-> handled, clicked |-> clicked]

\* Button::handle_event
ButtonHandle(c, ev) ==
    CASE ev.type = "MouseClick" ->
            IF Hit(c, ev) THEN Answer([c EXCEPT !.is_active = TRUE], TRUE, TRUE)
            ELSE Answer(c, FALSE, FALSE)
      [] ev.type = "MouseMove" ->
            Answer([c EXCEPT !.is_hovered = Hit(c, ev)], c.is_hovered # Hit(c, ev), FALSE)
      [] ev.type = "MouseRelease" ->
            IF c.is_active THEN Answer([c EXCEPT !.is_active = FALSE], TRUE, FALSE)
            ELSE Answer(c, FALSE, FALSE)
      [] OTHER -> Answer(c, FALSE, FALSE)

\* String::insert(idx, c) on the bytes of the text
InsertAt(text, idx, bytes) ==
    SubSeq(text, 1, idx) \o bytes \o SubSeq(text, idx + 1, Len(text))

\* UTF-8: the text is a sequence of bytes; a one-byte character is its
\* own byte, a two-byte character is a lead byte followed by a
\* continuation byte
LeadByte == "E1"
ContinuationByte == "e2"
TwoByteChar == <<LeadByte, ContinuationByte>>
\* str::is_char_boundary(idx)
is_char_boundary(text, idx) ==
    \/ idx = 0
    \/ idx = Len(text)
    \/ idx < Len(text) /\ text[idx + 1] # ContinuationByte
\* char::len_utf8 of the character that starts at byte idx
len_utf8_at(text, idx) == IF text[idx + 1] = LeadByte THEN 2 ELSE 1

\* String::remove(idx) on the bytes of the text: the whole character that
\* starts at byte idx is removed
RemoveAt(text, idx) ==
    SubSeq(text, 1, idx) \o SubSeq(text, idx + 1 + len_utf8_at(text, idx), Len(text))

\* TextInput::insert_char
insert_char(c, bytes) ==
    IF c.max_length # <<>> /\ Len(c.text) >= c.max_length[1] THEN c
    ELSE [c EXCEPT !.text = InsertAt(c.text, c.cursor_position, bytes),
                   !.cursor_position = c.cursor_position + 1]

\* TextInput::delete_char
delete_char(c) ==
    IF c.cursor_position < Len(c.text)
    THEN [c EXCEPT !.text = RemoveAt(c.text, c.cursor_position)]
    ELSE c

\* TextInput::backspace
backspace(c) ==
    IF c.cursor_position > 0
    THEN [c EXCEPT !.cursor_position = c.cursor_position - 1,
                   !.text = RemoveAt(c.text, c.cursor_position - 1)]
    ELSE c

\* TextInput::move_cursor_left
move_cursor_left(c) ==
    IF c.cursor_position > 0
    THEN [c EXCEPT !.cursor_position = c.cursor_position - 1] ELSE c

\* TextInput::move_cursor_right
move_cursor_right(c) ==
    IF c.cursor_position < Len(c.text)
    THEN [c EXCEPT !.cursor_position = c.cursor_position + 1] ELSE c

\* a `match key` that lacks the arm for Key::Home
TextInputKey_NoHome(c, ev) ==
    CASE ev.key = "Char" -> Answer(insert_char(c, ev.c), TRUE, FALSE)
      [] ev.key = "Backspace" -> Answer(backspace(c), TRUE, FALSE)
      [] ev.key = "Delete" -> Answer(delete_char(c), TRUE, FALSE)
      [] ev.key = "Left" -> Answer(move_cursor_left(c), TRUE, FALSE)
      [] ev.key = "Right" -> Answer(move_cursor_right(c), TRUE, FALSE)
      [] ev.key = "End" -> Answer([c EXCEPT !.cursor_position = Len(c.text)], TRUE, FALSE)
      [] ev.key = "Esc" -> Answer([c EXCEPT !.is_focused = FALSE], TRUE, FALSE)
      [] OTHER -> Answer(c, FALSE, FALSE)

\* the `match key` of TextInput::handle_event, for a focused input
TextInputKey(c, ev) ==
    CASE ev.key = "Char" -> Answer(insert_char(c, ev.c), TRUE, FALSE)
      [] ev.key = "Backspace" -> Answer(backspace(c), TRUE, FALSE)
      [] ev.key = "Delete" -> Answer(delete_char(c), TRUE, FALSE)
      [] ev.key = "Left" -> Answer(move_cursor_left(c), TRUE, FALSE)
      [] ev.key = "Right" -> Answer(move_cursor_right(c), TRUE, FALSE)
      [] ev.key = "Home" -> Answer([c EXCEPT !.cursor_position = 0], TRUE, FALSE)
      [] ev.key = "End" -> Answer([c EXCEPT !.cursor_position = Len(c.text)], TRUE, FALSE)
      [] ev.key = "Esc" -> Answer([c EXCEPT !.is_focused = FALSE], TRUE, FALSE)
      [] OTHER -> Answer(c, FALSE, FALSE)

\* TextInput::handle_event
TextInputHandle(c, ev) ==
    IF ~c.is_focused
    THEN IF ev.type = "MouseClick" /\ Hit(c, ev)
         THEN Answer([c EXCEPT !.is_focused = TRUE], TRUE, FALSE)
         ELSE Answer(c, FALSE, FALSE)
    ELSE CASE ev.type = "KeyPress" -> TextInputKey(c, ev)
           [] ev.type = "MouseClick" ->
                IF ~Hit(c, ev) THEN Answer([c EXCEPT !.is_focused = FALSE], TRUE, FALSE)
                ELSE Answer(c, FALSE, FALSE)
           [] OTHER -> Answer(c, FALSE, FALSE)

\* TextInput::set_text
set_text(c, text) ==
    IF c.max_length # <<>> /\ Len(text) > c.max_length[1] THEN c
    ELSE [c EXCEPT !.text = text,
                   !.cursor_position = Min(Len(text), c.cursor_position)]

\* the key makes String::insert or String::remove panic: insert(idx, ch)
\* asserts is_char_boundary(idx), remove(idx) slices the string at idx
KeyPanics(c, ev) ==
    CASE ev.key = "Char" ->
            /\ ~(c.max_length # <<>> /\ Len(c.text) >= c.max_length[1])
            /\ ~is_char_boundary(c.text, c.cursor_position)
      [] ev.key = "Backspace" ->
            c.cursor_position > 0 /\ ~is_char_boundary(c.text, c.cursor_position - 1)
      [] ev.key = "Delete" ->
            c.cursor_position < Len(c.text) /\ ~is_char_boundary(c.text, c.cursor_position)
      [] OTHER -> FALSE

\* Component::handle_event of a leaf (dynamic dispatch on the widget type)
LeafHandle(c, ev) ==
    IF c.kind = "Button" THEN ButtonHandle(c, ev) ELSE TextInputHandle(c, ev)

(***************************************************************************)
(* components/container.rs and app/app.rs: dispatch                        *)
(***************************************************************************)
\* The handlers take `&mut self` only: what a component answers and becomes
\* depends on its own fields and on the event, so the loops below are given
\* by the prefix of the visit order that they reach.

\* what each leaf would answer to the event ev
Answers(cs, ev) == Computed([n \in Leaves |-> LeafHandle(cs[n], ev)])

\* the order of `self.children.values_mut().rev()`
ChildVisitOrder(order) == Reverse(order)

\* the loop of Container::handle_event over the children in visit order q,
\* with its `break`: the children asked are those up to and including the
\* first one that returns true
Visited(ans, q) ==
    LET H == {i \in DOMAIN q : ans[q[i]].handled}
    IN IF H = {} THEN q
       ELSE SubSeq(q, 1, CHOOSE i \in H : \A j \in H : i <= j)

SeqToSet(q) == {q[i] : i \in DOMAIN q}

\* the handle_event calls made by Container::handle_event of "root"
ContainerCalls(ans, order) == <<"root">> \o Visited(ans, ChildVisitOrder(order))

\* the order of `self.components.values_mut()`: the loop of App::handle_event
\* has no break and drops the bool a component returns, so every order of
\* App.components gives the same outcome and one is modelled
AppVisitOrder == <<"root", "P">>

\* the handle_event calls made by the loop of App::handle_event
RECURSIVE AppCalls(_, _, _)
AppCalls(ans, order, i) ==
    IF i > Len(AppVisitOrder) THEN <<>>
    ELSE (IF AppVisitOrder[i] = "root" THEN ContainerCalls(ans, order)
          ELSE <<AppVisitOrder[i]>>)
         \o AppCalls(ans, order, i + 1)

\* the record of one dispatch that made the handle_event calls `invoked`
\* (in call order): the components afterwards, the leaves that returned
\* true and the buttons whose handle_click ran
Dispatched(cs, ans, invoked) ==
    LET asked == SeqToSet(invoked) \cap Leaves
    IN [comps |-> Computed([n \in DOMAIN cs |-> IF n \in asked THEN ans[n].c ELSE cs[n]]),
        invoked |-> invoked,
        handledBy |-> {n \in asked : ans[n].handled},
        clicked |-> {n \in asked : ans[n].clicked}]

\* Container::handle_event of "root"
ContainerHandle(cs, order, ev) ==
    LET ans == Answers(cs, ev)
    IN Dispatched(cs, ans, ContainerCalls(ans, order))

\* the `_` arm of App::handle_event: the event is passed to the components
AppDispatch(cs, order, ev) ==
    LET ans == Answers(cs, ev)
    IN Dispatched(cs, ans, AppCalls(ans, order, 1))

\* a `match event` whose Quit arm does not call stop()
handle_event_NoStop(cs, order, run, ev) ==
    IF ev.type = "Quit"
    THEN [comps |-> cs, invoked |-> <<>>, handledBy |-> {}, clicked |-> {},
          running |-> run]
    ELSE LET d == AppDispatch(cs, order, ev)
         IN [comps |-> d.comps, invoked |-> d.invoked, handledBy |-> d.handledBy,
             clicked |-> d.clicked, running |-> run]

\* App::handle_event: the record of the dispatch and the new App.running
handle_event(cs, order, run, ev) ==
    IF ev.type = "Quit"
    THEN [comps |-> cs, invoked |-> <<>>, handledBy |-> {}, clicked |-> {},
          running |-> FALSE]
    ELSE LET d == AppDispatch(cs, order, ev)
         IN [comps |-> d.comps, invoked |-> d.invoked, handledBy |-> d.handledBy,
             clicked |-> d.clicked, running |-> run]

\* the focused text inputs among the components cs
Focused(cs) == {n \in Leaves : cs[n].kind = "TextInput" /\ cs[n].is_focused}

(***************************************************************************)
(* States in which one part of the model is not exercised.                 *)
(***************************************************************************)
\* no frame has been presented yet
NoHist == [n |-> 0, before |-> <<>>, after |-> <<>>, sameDims |-> TRUE, idle |-> FALSE]

\* the buffer part of a state in which the buffer is not exercised
BufIdle ==
    /\ width = 0 /\ height = 0
    /\ cells = <<>> /\ prev_cells = <<>>
    /\ out = <<>>
    /\ bufOp = [op |-> "new"]
    /\ hist = NoHist
    /\ pending = [resized |-> FALSE, touched |-> FALSE]
    /\ nops = 0

\* the run-loop part of a state in which App::run is not exercised, and no
\* layout computation
AppIdle ==
    /\ appOrder = AppVisitOrder
    /\ pc = "new"
    /\ queue = <<>>
    /\ tickLog = <<>>
    /\ nticks = 0
    /\ nsent = 0
    /\ geo = [kind |-> "none"]

(***************************************************************************)
(* The event dispatch as a state machine.                                  *)
(***************************************************************************)
\* the event part of a state in which no event has been dispatched
EvIdle ==
    /\ comps = BuiltTree
    /\ childOrder = Inserted
    /\ running = FALSE

\* the application as built, about to dispatch events
EvInit ==
    /\ comps = BuiltTree
    /\ childOrder \in Orders(Children)
    /\ running = TRUE
    /\ BufIdle
    /\ AppIdle

\* no text is longer than the model allows
TextsBounded(cs) == \A n \in Leaves : Len(cs[n].text) <= MaxText

\* App::handle_event(event)
HandleEvent ==
    /\ \E ev \in Events :
        LET d == handle_event(comps, childOrder, running, ev)
        IN /\ TextsBounded(d.comps)
           /\ comps' = d.comps
           /\ running' = d.running
    /\ UNCHANGED childOrder
    /\ UNCHANGED bufVars
    /\ UNCHANGED appVars
    /\ UNCHANGED geo

EvNext == HandleEvent

SpecEv == EvInit /\ [][EvNext]_vars

\* BaseComponent::set_visible(false) on the components of the set hidden
Hide(cs, hidden) == [n \in DOMAIN cs |-> [cs[n] EXCEPT !.visible = n \notin hidden]]

\* the application as built, some components then hidden, about to
\* dispatch events
HiddenInit ==
    /\ \E hidden \in (SUBSET {"root", "A", "T"}) \ {{}} : comps = Hide(BuiltTree, hidden)
    /\ childOrder \in {Inserted, Reverse(Inserted)}
    /\ running = TRUE
    /\ BufIdle
    /\ AppIdle

SpecHidden == HiddenInit /\ [][EvNext]_vars

(***************************************************************************)
(* A focused TextInput that is typed into, with one-byte and two-byte      *)
(* characters, and whose text is set by set_text.                          *)
(***************************************************************************)
\* longest text in bytes in one run of SpecText
MaxBytes == 4
TypedChars == {<<"a">>, TwoByteChar}
TypedKeys ==
    {[type |-> "KeyPress", key |-> "Char", c |-> c] : c \in TypedChars}
    \cup {[type |-> "KeyPress", key |-> k] :
            k \in {"Backspace", "Delete", "Left", "Right", "Home", "End"}}
SetTexts == {<<>>, <<"a">>, TwoByteChar, <<"a">> \o TwoByteChar}

TextInit ==
    /\ geo = [kind |-> "text",
              input |-> [Component("TextInput", 0, 0, 10, 1) EXCEPT !.is_focused = TRUE],
              panicked |-> FALSE, last |-> "new"]
    /\ appOrder = AppVisitOrder
    /\ pc = "new"
    /\ queue = <<>>
    /\ tickLog = <<>>
    /\ nticks = 0
    /\ nsent = 0
    /\ EvIdle
    /\ BufIdle

\* TextInput::handle_event with a key press
TypeKey ==
    /\ geo.kind = "text" /\ ~geo.panicked
    /\ \E ev \in TypedKeys :
          IF KeyPanics(geo.input, ev)
          THEN geo' = [geo EXCEPT !.panicked = TRUE, !.last = ev.key]
          ELSE LET a == TextInputHandle(geo.input, ev)
               IN /\ Len(a.c.text) <= MaxBytes
                  /\ geo' = [geo EXCEPT !.input = a.c, !.last = ev.key]
    /\ UNCHANGED bufVars
    /\ UNCHANGED evVars
    /\ UNCHANGED appVars

\* TextInput::set_text
SetText ==
    /\ geo.kind = "text" /\ ~geo.panicked
    /\ \E text \in SetTexts :
          geo' = [geo EXCEPT !.input = set_text(@, text), !.last = "set_text"]
    /\ UNCHANGED bufVars
    /\ UNCHANGED evVars
    /\ UNCHANGED appVars

TextNext == TypeKey \/ SetText

SpecText == TextInit /\ [][TextNext]_vars

(***************************************************************************)
(* The buffer as a state machine: a RenderBuffer and its callers.          *)
(***************************************************************************)

BufInit ==
    \E d \in Dims :
        /\ width = d[1]
        /\ height = d[2]
        /\ cells = NewGrid(d[1], d[2])
        /\ prev_cells = NewGrid(d[1], d[2])
        /\ out = <<>>
        /\ bufOp = [op |-> "new"]
        /\ hist = [NoHist EXCEPT !.after = NewGrid(d[1], d[2])]
        /\ pending = [resized |-> FALSE, touched |-> FALSE]
        /\ nops = 0
        /\ EvIdle
        /\ AppIdle

\* RenderBuffer::draw_char(x, y, ch, style)
DrawChar ==
    /\ nops < MaxOps
    /\ \E p \in DrawPos, b \in Brushes :
        /\ cells' = set_cell(cells, width, height, p[1], p[2], b[1], b[2])
        /\ bufOp' = [op |-> "draw_char", x |-> p[1], y |-> p[2], ch |-> b[1], style |-> b[2],
                     oldCells |-> cells]
    /\ pending' = [pending EXCEPT !.touched = TRUE]
    /\ nops' = nops + 1
    /\ UNCHANGED <<width, height, prev_cells, out, hist>>
    /\ UNCHANGED evVars
    /\ UNCHANGED appVars
    /\ UNCHANGED geo

\* RenderBuffer::clear()
Clear ==
    /\ nops < MaxOps
    /\ cells' = clear(cells)
    /\ bufOp' = [op |-> "clear"]
    /\ pending' = [pending EXCEPT !.touched = TRUE]
    /\ nops' = nops + 1
    /\ UNCHANGED <<width, height, prev_cells, out, hist>>
    /\ UNCHANGED evVars
    /\ UNCHANGED appVars
    /\ UNCHANGED geo

\* RenderBuffer::resize(w, h)
Resize ==
    /\ nops < MaxOps
    /\ \E d \in Dims :
        /\ width' = d[1]
        /\ height' = d[2]
        /\ cells' = ResizeGrid(cells, width, height, d[1], d[2])
        /\ prev_cells' = ResizeGrid(prev_cells, width, height, d[1], d[2])
        /\ bufOp' = [op |-> "resize", oldW |-> width, oldH |-> height,
                     oldCells |-> cells, oldPrev |-> prev_cells]
        /\ pending' = [resized |-> (pending.resized \/ d # <<width, height>>),
                       touched |-> TRUE]
    /\ nops' = nops + 1
    /\ UNCHANGED <<out, hist>>
    /\ UNCHANGED evVars
    /\ UNCHANGED appVars
    /\ UNCHANGED geo

\* Renderer::present() / RenderBuffer::render_to_terminal()
Present ==
    /\ nops < MaxOps
    /\ LET r == render_to_terminal(cells, prev_cells, width)
       IN /\ cells' = r.cells
          /\ prev_cells' = r.prev_cells
          /\ out' = r.out
    /\ bufOp' = [op |-> "present"]
    /\ hist' = [n |-> hist.n + 1, before |-> hist.after, after |-> cells,
                sameDims |-> ~pending.resized, idle |-> ~pending.touched]
    /\ pending' = [resized |-> FALSE, touched |-> FALSE]
    /\ nops' = nops + 1
    /\ UNCHANGED <<width, height>>
    /\ UNCHANGED evVars
    /\ UNCHANGED appVars
    /\ UNCHANGED geo

BufNext == DrawChar \/ Clear \/ Resize \/ Present

SpecBuf == BufInit /\ [][BufNext]_vars

(***************************************************************************)
(* render/renderer.rs and the render methods of the components             *)
(***************************************************************************)
\* the styles of Button::new and TextInput::new
ButtonStyle == [fg |-> "White", bg |-> "Blue", bold |-> TRUE]
HoverStyle == [fg |-> "Black", bg |-> "Cyan", bold |-> TRUE]
ActiveStyle == [fg |-> "White", bg |-> "Red", bold |-> TRUE]
InputStyle == [fg |-> "White", bg |-> "Black", bold |-> FALSE]
CursorStyle == [fg |-> "Black", bg |-> "White", bold |-> FALSE]
\* the text of the buttons (Button::new("")) and the placeholder of the
\* text inputs (set_placeholder(""))
ButtonText == <<>>
Placeholder == <<>>
Ellipsis == <<".", ".", ".">>

\* u16::saturating_sub
saturating_sub(a, b) == IF a > b THEN a - b ELSE 0

\* v is one of start, start+1, .., start+len-1 in wrapping u16 arithmetic
InSpan(v, start, len) == U16(v - start) < len

\* RenderBuffer::fill_area: draw_char(ch, style) on every cell (x+col, y+row),
\* col < w and row < h, that lies inside the grid (the sums wrap)
fill_area(cs, W, H, x, y, w, h, ch, st) ==
    Computed([i \in DOMAIN cs |->
        LET bx == (i - 1) % W
            by == (i - 1) \div W
        IN IF InSpan(bx, x, w) /\ InSpan(by, y, h) /\ by < H
           THEN [ch |-> ch, style |-> st,
                 dirty |-> (cs[i].ch # ch \/ cs[i].style # st)]
           ELSE cs[i]])

\* RenderBuffer::draw_rect: the loop of fill_area with the character ' '
buffer_draw_rect(cs, W, H, x, y, w, h, st) == fill_area(cs, W, H, x, y, w, h, " ", st)

\* Renderer::draw_rect: the same loop, written out once more in renderer.rs
draw_rect(cs, W, H, x, y, w, h, st) == fill_area(cs, W, H, x, y, w, h, " ", st)

\* RenderBuffer::draw_text
RECURSIVE buffer_draw_text(_, _, _, _, _, _, _)
buffer_draw_text(cs, W, H, current_x, y, text, st) ==
    IF text = <<>> \/ current_x >= W THEN cs
    ELSE buffer_draw_text(set_cell(cs, W, H, current_x, y, Head(text), st),
                          W, H, U16(current_x + 1), y, Tail(text), st)

\* Renderer::draw_text with max_width = Some(max_width)
draw_text(cs, W, H, x, y, text, st, max_width) ==
    LET shown == IF Len(text) > max_width
                 THEN SubSeq(text, 1, Min(Len(text), saturating_sub(max_width, 3)))
                      \o Ellipsis
                 ELSE text
    IN buffer_draw_text(cs, W, H, x, y, shown, st)

\* Button::current_style
current_style(c) ==
    IF c.is_active THEN ActiveStyle
    ELSE IF c.is_hovered THEN HoverStyle ELSE ButtonStyle

\* Button::render
ButtonRender(cs, W, H, c) ==
    IF ~c.visible THEN cs
    ELSE LET st == current_style(c)
             bg == draw_rect(cs, W, H, c.x, c.y, c.w, c.h, st)
             text_len == Len(ButtonText)
             text_y == U16(c.y + c.h \div 2)
         IN IF text_len < c.w
            THEN draw_text(bg, W, H, U16(c.x + (c.w - text_len) \div 2), text_y,
                           ButtonText, st, c.w)
            ELSE draw_text(bg, W, H, c.x, text_y,
                           SubSeq(ButtonText, 1, Min(U16(c.w - 3), text_len)) \o Ellipsis,
                           st, c.w)

\* TextInput::render (is_password is false)
TextInputRender(cs, W, H, c) ==
    IF ~c.visible THEN cs
    ELSE LET bg == draw_rect(cs, W, H, c.x, c.y, c.w, c.h, InputStyle)
             display_text == IF c.text = <<>> THEN Placeholder ELSE c.text
             max_text_len == saturating_sub(c.w, 2)
             start == IF c.cursor_position > max_text_len
                      THEN c.cursor_position - max_text_len ELSE 0
             truncated_text ==
                 IF Len(display_text) > max_text_len
                 THEN SubSeq(display_text, start + 1,
                             Min(Len(display_text), start + max_text_len))
                 ELSE display_text
             shown == draw_text(bg, W, H, U16(c.x + 1), c.y, truncated_text,
                                InputStyle, U16(c.w - 2))
         IN IF c.is_focused /\ c.y < c.h
            THEN draw_text(shown, W, H,
                           U16(c.x + 1 + Min(c.cursor_position, Len(truncated_text))),
                           c.y, <<" ">>, CursorStyle, 1)
            ELSE shown

\* Component::render of a leaf
LeafRender(cs, W, H, c) ==
    IF c.kind = "Button" THEN ButtonRender(cs, W, H, c) ELSE TextInputRender(cs, W, H, c)

\* the loop `for child in self.children.values()` of Container::render
RECURSIVE RenderChildren(_, _, _, _, _, _)
RenderChildren(cs, W, H, cmps, order, i) ==
    IF i > Len(order) THEN cs
    ELSE RenderChildren(IF cmps[order[i]].visible
                        THEN LeafRender(cs, W, H, cmps[order[i]]) ELSE cs,
                        W, H, cmps, order, i + 1)

\* Container::render of "root" (style Style::default(), no border)
ContainerRender(cs, W, H, cmps, order) ==
    IF ~cmps["root"].visible THEN cs
    ELSE LET r == cmps["root"]
         IN RenderChildren(draw_rect(cs, W, H, r.x, r.y, r.w, r.h, DefaultStyle),
                           W, H, cmps, order, 1)

\* the loop of App::render over App.components (Renderer::render_component)
RECURSIVE RenderComponents(_, _, _, _, _, _, _)
RenderComponents(cs, W, H, cmps, aorder, order, i) ==
    IF i > Len(aorder) THEN cs
    ELSE RenderComponents(IF aorder[i] = "root"
                          THEN ContainerRender(cs, W, H, cmps, order)
                          ELSE LeafRender(cs, W, H, cmps[aorder[i]]),
                          W, H, cmps, aorder, order, i + 1)

(***************************************************************************)
(* render/buffer.rs: draw_border, and the drawing calls as a state machine *)
(* over arbitrary u16 arguments.  A sum that exceeds u16::MAX panics in a  *)
(* build with overflow checks (debug) and wraps in one without (release).  *)
(***************************************************************************)
\* the draw_char calls of draw_border for the horizontal lines, col..w-2
RECURSIVE BorderH(_, _, _, _, _)
BorderH(x, y, w, h, col) ==
    IF col >= w - 1 THEN <<>>
    ELSE <<[x |-> U16(x + col), y |-> y, ch |-> "H"],
           [x |-> U16(x + col), y |-> U16(U16(y + h) - 1), ch |-> "H"]>>
         \o BorderH(x, y, w, h, col + 1)

\* the draw_char calls of draw_border for the vertical lines, row..h-2
RECURSIVE BorderV(_, _, _, _, _)
BorderV(x, y, w, h, row) ==
    IF row >= h - 1 THEN <<>>
    ELSE <<[x |-> x, y |-> U16(y + row), ch |-> "V"],
           [x |-> U16(U16(x + w) - 1), y |-> U16(y + row), ch |-> "V"]>>
         \o BorderV(x, y, w, h, row + 1)

\* the draw_char calls of draw_border in program order; the box-drawing
\* characters are named TL, TR, BL, BR (corners), H and V (lines)
BorderWrites(x, y, w, h) ==
    IF w < 2 \/ h < 2 THEN <<>>
    ELSE <<[x |-> x, y |-> y, ch |-> "TL"],
           [x |-> U16(U16(x + w) - 1), y |-> y, ch |-> "TR"],
           [x |-> x, y |-> U16(U16(y + h) - 1), ch |-> "BL"],
           [x |-> U16(U16(x + w) - 1), y |-> U16(U16(y + h) - 1), ch |-> "BR"]>>
         \o BorderH(x, y, w, h, 1) \o BorderV(x, y, w, h, 1)

RECURSIVE DrawChars(_, _, _, _, _)
DrawChars(cs, W, H, ws, st) ==
    IF ws = <<>> THEN cs
    ELSE DrawChars(set_cell(cs, W, H, Head(ws).x, Head(ws).y, Head(ws).ch, st),
                   W, H, Tail(ws), st)

\* RenderBuffer::draw_border
draw_border(cs, W, H, x, y, w, h, st) == DrawChars(cs, W, H, BorderWrites(x, y, w, h), st)

\* the sums `x + col`, `y + row` of draw_rect and fill_area exceed u16::MAX
\* for some iteration
RectOverflows(x, y, w, h) ==
    w > 0 /\ h > 0 /\ (x + (w - 1) > 65535 \/ y + (h - 1) > 65535)

\* the sums `x + width`, `y + height` of draw_border exceed u16::MAX
BorderOverflows(x, y, w, h) ==
    w >= 2 /\ h >= 2 /\ (x + w > 65535 \/ y + h > 65535)

\* overflow checks on or off
Builds == {"debug", "release"}

\* arguments of the drawing calls: positions inside the grids, outside
\* them and at the end of the u16 range; sizes; texts
FarPos == {<<0, 0>>, <<2, 1>>, <<65535, 0>>, <<1, 65535>>}
Sizes == {<<0, 0>>, <<2, 2>>, <<3, 1>>, <<1, 3>>}
Texts == {<<>>, <<"a", "b">>}
\* number of drawing calls in one run of SpecDraw
MaxDraws == 2

\* the program has panicked
Panicked == "fault" \in DOMAIN bufOp /\ bufOp.fault

\* a drawing call o on the grid: either it runs to its end and returns
\* Ok(()), leaving the grid `after`, or (overflows, debug build) it panics
DrawCall(o, overflows, after) ==
    /\ nops < MaxDraws
    /\ ~Panicked
    /\ \E build \in Builds :
          LET fault == overflows /\ build = "debug"
          IN /\ cells' = IF fault THEN cells ELSE after
             /\ bufOp' = [op |-> o.op, args |-> o, oldCells |-> cells, fault |-> fault]
    /\ pending' = [pending EXCEPT !.touched = TRUE]
    /\ nops' = nops + 1
    /\ UNCHANGED <<width, height, prev_cells, out, hist>>
    /\ UNCHANGED evVars
    /\ UNCHANGED appVars
    /\ UNCHANGED geo

\* RenderBuffer::draw_char(x, y, 'X', style)
DrawCharAt ==
    \E p \in FarPos :
        DrawCall([op |-> "draw_char", x |-> p[1], y |-> p[2]], FALSE,
                 set_cell(cells, width, height, p[1], p[2], "X", RedStyle))

\* RenderBuffer::draw_text(x, y, text, style)
DrawText ==
    \E p \in FarPos, t \in Texts :
        DrawCall([op |-> "draw_text", x |-> p[1], y |-> p[2], text |-> t], FALSE,
                 buffer_draw_text(cells, width, height, p[1], p[2], t, RedStyle))

\* RenderBuffer::draw_rect(x, y, width, height, style)
DrawRect ==
    \E p \in FarPos, z \in Sizes :
        DrawCall([op |-> "draw_rect", x |-> p[1], y |-> p[2], w |-> z[1], h |-> z[2]],
                 RectOverflows(p[1], p[2], z[1], z[2]),
                 buffer_draw_rect(cells, width, height, p[1], p[2], z[1], z[2], RedStyle))

\* RenderBuffer::draw_border(x, y, width, height, style)
DrawBorder ==
    \E p \in FarPos, z \in Sizes :
        DrawCall([op |-> "draw_border", x |-> p[1], y |-> p[2], w |-> z[1], h |-> z[2]],
                 BorderOverflows(p[1], p[2], z[1], z[2]),
                 draw_border(cells, width, height, p[1], p[2], z[1], z[2], RedStyle))

\* RenderBuffer::fill_area(x, y, width, height, 'X', style)
FillArea ==
    \E p \in FarPos, z \in Sizes :
        DrawCall([op |-> "fill_area", x |-> p[1], y |-> p[2], w |-> z[1], h |-> z[2]],
                 RectOverflows(p[1], p[2], z[1], z[2]),
                 fill_area(cells, width, height, p[1], p[2], z[1], z[2], "X", RedStyle))

DrawNext == DrawCharAt \/ DrawText \/ DrawRect \/ DrawBorder \/ FillArea

SpecDraw == BufInit /\ [][DrawNext]_vars

(***************************************************************************)
(* components/container.rs: layout                                         *)
(***************************************************************************)
\* Container.padding of Container::new: (top, right, bottom, left)
Padding == <<1, 1, 1, 1>>

\* a Vertical arm that does not advance current_y
ArrangeVertical_NoAdvance(cmps, order, i, content_x, current_y, content_width, child_height) ==
    [n \in DOMAIN cmps |->
        IF \E k \in i..Len(order) : order[k] = n
        THEN [cmps[n] EXCEPT !.x = content_x, !.y = current_y,
                             !.w = content_width, !.h = child_height]
        ELSE cmps[n]]

\* the loop of the LayoutType::Vertical arm of arrange_children
RECURSIVE ArrangeVertical(_, _, _, _, _, _, _)
ArrangeVertical(cmps, order, i, content_x, current_y, content_width, child_height) ==
    IF i > Len(order) THEN cmps
    ELSE ArrangeVertical([cmps EXCEPT ![order[i]].x = content_x,
                                      ![order[i]].y = current_y,
                                      ![order[i]].w = content_width,
                                      ![order[i]].h = child_height],
                         order, i + 1, content_x, U16(current_y + child_height),
                         content_width, child_height)

\* the loop of the LayoutType::Horizontal arm of arrange_children
RECURSIVE ArrangeHorizontal(_, _, _, _, _, _, _)
ArrangeHorizontal(cmps, order, i, current_x, content_y, child_width, content_height) ==
    IF i > Len(order) THEN cmps
    ELSE ArrangeHorizontal([cmps EXCEPT ![order[i]].x = current_x,
                                        ![order[i]].y = content_y,
                                        ![order[i]].w = child_width,
                                        ![order[i]].h = content_height],
                           order, i + 1, U16(current_x + child_width), content_y,
                           child_width, content_height)

\* the loop of the LayoutType::Absolute arm of arrange_children
RECURSIVE ArrangeAbsolute(_, _, _, _, _, _, _)
ArrangeAbsolute(cmps, order, i, content_x, content_y, content_width, content_height) ==
    IF i > Len(order) THEN cmps
    ELSE LET cx == cmps[order[i]].x
             cy == cmps[order[i]].y
             new_x == U16(content_x + Min(cx, content_width))
             new_y == U16(content_y + Min(cy, content_height))
         IN ArrangeAbsolute([cmps EXCEPT ![order[i]].x = new_x, ![order[i]].y = new_y],
                            order, i + 1, content_x, content_y, content_width,
                            content_height)

\* a Grid arm that lays the children out in a row
ArrangeGrid_AsRow(cmps, order, i, content_x, current_y, content_width, child_height) ==
    ArrangeHorizontal(cmps, order, i, content_x, current_y, content_width, child_height)

\* the loop of the LayoutType::Grid arm of arrange_children
RECURSIVE ArrangeGrid(_, _, _, _, _, _, _)
ArrangeGrid(cmps, order, i, content_x, current_y, content_width, child_height) ==
    IF i > Len(order) THEN cmps
    ELSE ArrangeGrid([cmps EXCEPT ![order[i]].x = content_x,
                                  ![order[i]].y = current_y,
                                  ![order[i]].w = content_width,
                                  ![order[i]].h = child_height],
                     order, i + 1, content_x, U16(current_y + child_height),
                     content_width, child_height)

\* `self.children.len().max(1) as u16`
CountOrOne(order) == IF Len(order) > 1 THEN Len(order) ELSE 1

\* Container::arrange_children of a container with bounds r, the given
\* padding (top, right, bottom, left) and layout, whose children are
\* cmps[order[1]], cmps[order[2]], .. in the iteration order of the map
Arrange(layout, r, padding, cmps, order) ==
    LET content_x == U16(r.x + padding[4])
        content_y == U16(r.y + padding[1])
        content_width == saturating_sub(r.w, U16(padding[4] + padding[2]))
        content_height == saturating_sub(r.h, U16(padding[1] + padding[3]))
    IN CASE layout = "Vertical" ->
              ArrangeVertical(cmps, order, 1, content_x, content_y, content_width,
                              content_height \div CountOrOne(order))
         [] layout = "Horizontal" ->
              ArrangeHorizontal(cmps, order, 1, content_x, content_y,
                                content_width \div CountOrOne(order), content_height)
         [] layout = "Absolute" ->
              ArrangeAbsolute(cmps, order, 1, content_x, content_y, content_width,
                              content_height)
         [] layout = "Grid" ->
              ArrangeGrid(cmps, order, 1, content_x, content_y, content_width,
                          content_height \div CountOrOne(order))

\* Container::arrange_children of "root" (Container::new: layout
\* LayoutType::Vertical, padding Padding)
arrange_children(cmps, order) == Arrange("Vertical", cmps["root"], Padding, cmps, order)

\* App::update: Container::update of "root" arranges the children; the
\* update methods of Button and TextInput do nothing
update(cmps, order) == arrange_children(cmps, order)

(***************************************************************************)
(* A container on its own: Container::update called tick after tick.       *)
(***************************************************************************)
\* number of children of the container
MaxKids == 3
\* number of layout passes in one run of SpecLayout
MaxPasses == 2

Box(x, y, w, h) == [x |-> x, y |-> y, w |-> w, h |-> h]
LayoutTypes == {"Vertical", "Horizontal", "Absolute", "Grid"}
\* container bounds; the last is smaller than most paddings
Boxes == {Box(0, 0, 40, 30), Box(3, 1, 10, 7), Box(0, 0, 2, 2)}
\* with_padding(top, right, bottom, left) / with_uniform_padding
Paddings == {<<0, 0, 0, 0>>, <<1, 1, 1, 1>>, <<2, 2, 2, 2>>, <<1, 2, 3, 4>>}
\* bounds of a child when it is added (the first is BaseComponent::new)
KidBoxes == {Box(0, 0, 10, 1), Box(3, 5, 4, 2), Box(50, 50, 1, 1)}
\* the children in the iteration order of the map
KidLists == UNION {[1..n -> KidBoxes] : n \in 0..MaxKids}
\* the iteration order over children kept in a sequence
Identity(n) == [i \in 1..n |-> i]

LayoutInit ==
    /\ \E layout \in LayoutTypes, r \in Boxes, padding \in Paddings, kids \in KidLists :
          geo = [kind |-> "layout", layout |-> layout, box |-> r, padding |-> padding,
                 kids |-> kids, before |-> kids, passes |-> 0]
    /\ appOrder = AppVisitOrder
    /\ pc = "new"
    /\ queue = <<>>
    /\ tickLog = <<>>
    /\ nticks = 0
    /\ nsent = 0
    /\ EvIdle
    /\ BufIdle

\* Container::update: arrange_children, then the (empty) update of each child
LayoutPass ==
    /\ geo.passes < MaxPasses
    /\ geo' = [geo EXCEPT
                 !.before = geo.kids,
                 !.kids = Arrange(geo.layout, geo.box, geo.padding, geo.kids,
                                  Identity(Len(geo.kids))),
                 !.passes = @ + 1]
    /\ UNCHANGED bufVars
    /\ UNCHANGED evVars
    /\ UNCHANGED appVars

LayoutNext == LayoutPass

SpecLayout == LayoutInit /\ [][LayoutNext]_vars

(***************************************************************************)
(* components/layout.rs: flex::calculate_layout.  The Row and the Column   *)
(* arm are the same computation with the axes exchanged: an item is given  *)
(* here as (main, cross) extents and a result as (main position, cross     *)
(* position, main size, cross size).  Every result comes with the flag     *)
(* `overflow`: some u16 operation left the range 0..65535 (the values are  *)
(* then the wrapped ones of a build without overflow checks).              *)
(***************************************************************************)
\* `items.iter().map(..).sum()` over the main extents
RECURSIVE SumMain(_, _, _)
SumMain(items, i, acc) ==
    IF i > Len(items) THEN acc
    ELSE SumMain(items, i + 1,
                 [v |-> U16(acc.v + items[i][1]),
                  overflow |-> acc.overflow \/ acc.v + items[i][1] > 65535])

\* the start value of current_x / current_y
FlexStart(justify, available, gaps) ==
    CASE justify = "Start" -> 0
      [] justify = "Center" -> available \div 2
      [] justify = "End" -> available
      [] justify = "SpaceBetween" -> 0
      [] justify = "SpaceAround" -> gaps \div 2
      [] justify = "SpaceEvenly" -> gaps

\* what is added to the item's extent to advance current_x / current_y
FlexStep(justify, available, gaps, i, n) ==
    IF justify = "SpaceBetween"
    THEN IF i - 1 < n - 1 THEN available \div U16(n - 1) ELSE 0
    ELSE gaps

\* the loop over the items, from item i on, with current_x / current_y = cur
RECURSIVE FlexLoop(_, _, _, _, _, _, _, _, _, _)
FlexLoop(items, i, cur, extent, cross_extent, justify, align, available, gaps, acc) ==
    IF i > Len(items) THEN acc
    ELSE LET main == items[i][1]
             cross == items[i][2]
             cross_pos == CASE align = "Start" -> 0
                            [] align = "Center" -> U16(cross_extent - cross) \div 2
                            [] align = "End" -> U16(cross_extent - cross)
                            [] align = "Stretch" -> 0
             cross_size == IF align = "Stretch" THEN cross_extent ELSE cross
             step == FlexStep(justify, available, gaps, i, Len(items))
             bad == \/ (align \in {"Center", "End"} /\ cross > cross_extent)
                    \/ main + step > 65535
                    \/ cur + U16(main + step) > 65535
         IN FlexLoop(items, i + 1, U16(cur + U16(main + step)), extent, cross_extent,
                     justify, align, available, gaps,
                     [positions |-> Append(acc.positions, <<cur, cross_pos, main, cross_size>>),
                      overflow |-> acc.overflow \/ bad])

\* one arm of calculate_layout for a non-empty item list
FlexAxis(extent, cross_extent, justify, align, items, gaps) ==
    LET total_item == SumMain(items, 1, [v |-> 0, overflow |-> FALSE])
        total_gap == U16(gaps * U16(Len(items) - 1))
        available == saturating_sub(extent, U16(total_item.v + total_gap))
        bad == \/ total_item.overflow
               \/ gaps * U16(Len(items) - 1) > 65535
               \/ total_item.v + total_gap > 65535
    IN FlexLoop(items, 1, FlexStart(justify, available, gaps), extent, cross_extent,
                justify, align, available, gaps,
                [positions |-> <<>>, overflow |-> bad])

\* (a, b, c, d) with the two axes exchanged
SwapAxes(q) == [i \in DOMAIN q |-> <<q[i][2], q[i][1]>> \o
                                   (IF Len(q[i]) = 4 THEN <<q[i][4], q[i][3]>> ELSE <<>>)]

\* flex::calculate_layout; items are (width, height), positions are
\* (x, y, width, height)
calculate_layout(container_width, container_height, direction, justify, align, items, gaps) ==
    IF items = <<>> THEN [positions |-> <<>>, overflow |-> FALSE]
    ELSE IF direction = "Row"
    THEN FlexAxis(container_width, container_height, justify, align, items, gaps)
    ELSE LET r == FlexAxis(container_height, container_width, justify, align,
                           SwapAxes(items), gaps)
         IN [positions |-> SwapAxes(r.positions), overflow |-> r.overflow]

\* number of items of a flex layout
MaxItems == 3
Directions == {"Row", "Column"}
Justifies == {"Start", "Center", "End", "SpaceBetween", "SpaceAround", "SpaceEvenly"}
Aligns == {"Start", "Center", "End", "Stretch"}
\* container (width, height), item (width, height), gaps
FlexContainers == {<<50, 10>>, <<20, 4>>}
FlexItems == {<<10, 5>>, <<15, 5>>, <<30, 12>>}
FlexItemLists == UNION {[1..n -> FlexItems] : n \in 0..MaxItems}
FlexGaps == {0, 2, 3}

FlexInit ==
    /\ \E c \in FlexContainers, direction \in Directions, justify \in Justifies,
          align \in Aligns, items \in FlexItemLists, gaps \in FlexGaps :
          geo = [kind |-> "flex", container_width |-> c[1], container_height |-> c[2],
                 direction |-> direction, justify |-> justify, align |-> align,
                 items |-> items, gaps |-> gaps,
                 returned |-> FALSE, panicked |-> FALSE, wrapped |-> FALSE,
                 positions |-> <<>>]
    /\ appOrder = AppVisitOrder
    /\ pc = "new"
    /\ queue = <<>>
    /\ tickLog = <<>>
    /\ nticks = 0
    /\ nsent = 0
    /\ EvIdle
    /\ BufIdle

\* a call of flex::calculate_layout: it returns the positions, or (u16
\* overflow in a build with overflow checks) it panics
CalculateLayout ==
    /\ geo.kind = "flex" /\ ~geo.returned /\ ~geo.panicked
    /\ LET r == calculate_layout(geo.container_width, geo.container_height,
                                 geo.direction, geo.justify, geo.align, geo.items,
                                 geo.gaps)
       IN \E build \in Builds :
            IF r.overflow /\ build = "debug"
            THEN geo' = [geo EXCEPT !.panicked = TRUE]
            ELSE geo' = [geo EXCEPT !.returned = TRUE, !.wrapped = r.overflow,
                                    !.positions = r.positions]
    /\ UNCHANGED bufVars
    /\ UNCHANGED evVars
    /\ UNCHANGED appVars

FlexNext == CalculateLayout

SpecFlex == FlexInit /\ [][FlexNext]_vars

(***************************************************************************)
(* app/app.rs: App::run as a state machine.  The terminal is TermDim cells *)
(* large; events arrive from the input thread at any time.                 *)
(***************************************************************************)
TermDim == <<10, 10>>
\* the tree of BuiltTree with the container sized to the terminal
AppTree == [BuiltTree EXCEPT !["root"].h = TermDim[2]]
\* the events sent to the running application
AppEvents ==
    {[type |-> "MouseClick", x |-> 5, y |-> 5],
     [type |-> "MouseMove", x |-> 5, y |-> 5],
     [type |-> "Quit"]}

\* App::with_config and the add_component calls
AppInit ==
    /\ comps = AppTree
    /\ childOrder \in Orders(Children)
    /\ appOrder \in Orders(TopLevel)
    /\ running = FALSE
    /\ pc = "new"
    /\ queue = <<>>
    /\ tickLog = <<>>
    /\ nticks = 0
    /\ nsent = 0
    /\ geo = [kind |-> "none"]
    /\ width = TermDim[1]
    /\ height = TermDim[2]
    /\ cells = NewGrid(TermDim[1], TermDim[2])
    /\ prev_cells = NewGrid(TermDim[1], TermDim[2])
    /\ out = <<>>
    /\ bufOp = [op |-> "new"]
    /\ hist = [NoHist EXCEPT !.after = NewGrid(TermDim[1], TermDim[2])]
    /\ pending = [resized |-> FALSE, touched |-> FALSE]
    /\ nops = 0

\* EventHandler::send_event(event)
SendEvent ==
    /\ pc # "done"
    /\ nsent < MaxSent
    /\ \E ev \in AppEvents : queue' = Append(queue, ev)
    /\ nsent' = nsent + 1
    /\ UNCHANGED <<appOrder, pc, tickLog, nticks>>
    /\ UNCHANGED evVars
    /\ UNCHANGED bufVars
    /\ UNCHANGED geo

\* App::run up to the loop: `self.running = true`
RunStart ==
    /\ pc = "new"
    /\ running' = TRUE
    /\ pc' = "events"
    /\ UNCHANGED <<comps, childOrder, appOrder, queue, tickLog, nticks, nsent>>
    /\ UNCHANGED bufVars
    /\ UNCHANGED geo

\* one round of `while let Some(event) = next_event()`: handle_event(event)
NextEvent ==
    /\ pc = "events"
    /\ queue # <<>>
    /\ LET d == handle_event(comps, childOrder, running, Head(queue))
       IN /\ comps' = d.comps
          /\ running' = d.running
    /\ queue' = Tail(queue)
    /\ UNCHANGED <<childOrder, appOrder, pc, tickLog, nticks, nsent>>
    /\ UNCHANGED bufVars
    /\ UNCHANGED geo

\* next_event() returns None: the inner loop ends
EventsDrained ==
    /\ pc = "events"
    /\ queue = <<>>
    /\ pc' = "render"
    /\ tickLog' = Append(tickLog, "drain")
    /\ UNCHANGED <<appOrder, queue, nticks, nsent>>
    /\ UNCHANGED evVars
    /\ UNCHANGED bufVars
    /\ UNCHANGED geo

\* App::render: Renderer::clear, render_component for every component,
\* Renderer::present
Render ==
    /\ pc = "render"
    /\ LET frame == RenderComponents(clear(cells), width, height, comps,
                                     appOrder, childOrder, 1)
           r == render_to_terminal(frame, prev_cells, width)
       IN /\ cells' = r.cells
          /\ prev_cells' = r.prev_cells
          /\ out' = r.out
          /\ hist' = [n |-> hist.n + 1, before |-> hist.after, after |-> frame,
                      sameDims |-> TRUE, idle |-> FALSE]
    /\ bufOp' = [op |-> "present"]
    /\ pending' = [resized |-> FALSE, touched |-> FALSE]
    /\ pc' = "update"
    /\ tickLog' = tickLog \o <<"render", "present">>
    /\ UNCHANGED <<width, height, nops>>
    /\ UNCHANGED <<appOrder, queue, nticks, nsent>>
    /\ UNCHANGED evVars
    /\ UNCHANGED geo

\* App::update
Update ==
    /\ pc = "update"
    /\ comps' = update(comps, childOrder)
    /\ pc' = "sleep"
    /\ tickLog' = Append(tickLog, "update")
    /\ UNCHANGED <<childOrder, running, appOrder, queue, nticks, nsent>>
    /\ UNCHANGED bufVars
    /\ UNCHANGED geo

\* the sleep that ends a tick, and the test `while self.running`; when the
\* loop ends, terminal.cleanup() follows.  MaxTicks bounds the ticks that
\* are followed by another tick.
Sleep ==
    /\ pc = "sleep"
    /\ running => nticks < MaxTicks
    /\ nticks' = nticks + 1
    /\ IF running
       THEN pc' = "events" /\ tickLog' = <<>>
       ELSE pc' = "done" /\ tickLog' = tickLog
    /\ UNCHANGED <<appOrder, queue, nsent>>
    /\ UNCHANGED evVars
    /\ UNCHANGED bufVars
    /\ UNCHANGED geo

AppNext == SendEvent \/ RunStart \/ NextEvent \/ EventsDrained \/ Render \/ Update \/ Sleep

SpecApp == AppInit /\ [][AppNext]_vars

(***************************************************************************)
(* app/app.rs, App::render with the error paths of its `?` operators.  A   *)
(* fault is what goes wrong in one call: nothing, the render of one        *)
(* component returning Err, or the k-th write of present() failing (k = 0: *)
(* the final flush).  The state r of a frame in progress holds the grid,   *)
(* the names whose render was called and whether an Err is being returned. *)
(***************************************************************************)
NoFault == [at |-> "none"]
RenderFault(n) == [at |-> "render", name |-> n]
IoFault(k) == [at |-> "io", k |-> k]
Failing(fault, n) == fault.at = "render" /\ fault.name = n

\* Component::render of the leaf n, called by its owner
TryLeafRender(r, W, H, cmps, n, fault) ==
    IF Failing(fault, n)
    THEN [r EXCEPT !.called = Append(@, n), !.err = TRUE]
    ELSE [r EXCEPT !.called = Append(@, n),
                   !.cells = LeafRender(r.cells, W, H, cmps[n])]

\* the loop `for child in self.children.values()` of Container::render,
\* `child.render(renderer)?` included
RECURSIVE TryRenderChildren(_, _, _, _, _, _, _)
TryRenderChildren(r, W, H, cmps, order, i, fault) ==
    IF r.err \/ i > Len(order) THEN r
    ELSE TryRenderChildren(IF cmps[order[i]].visible
                           THEN TryLeafRender(r, W, H, cmps, order[i], fault)
                           ELSE r,
                           W, H, cmps, order, i + 1, fault)

\* Container::render of "root"
TryContainerRender(r, W, H, cmps, order, fault) ==
    IF Failing(fault, "root")
    THEN [r EXCEPT !.called = Append(@, "root"), !.err = TRUE]
    ELSE IF ~cmps["root"].visible THEN [r EXCEPT !.called = Append(@, "root")]
    ELSE LET c == cmps["root"]
             bg == draw_rect(r.cells, W, H, c.x, c.y, c.w, c.h, DefaultStyle)
         IN TryRenderChildren([r EXCEPT !.called = Append(@, "root"), !.cells = bg],
                              W, H, cmps, order, 1, fault)

\* a loop that drops the Result of render_component and goes on
RECURSIVE TryRenderComponents_Swallow(_, _, _, _, _, _, _, _)
TryRenderComponents_Swallow(r, W, H, cmps, aorder, order, i, fault) ==
    IF i > Len(aorder) THEN r
    ELSE TryRenderComponents_Swallow(
             IF aorder[i] = "root"
             THEN TryContainerRender(r, W, H, cmps, order, fault)
             ELSE TryLeafRender(r, W, H, cmps, aorder[i], fault),
             W, H, cmps, aorder, order, i + 1, fault)

\* the loop of App::render: `self.renderer.render_component(..)?`
RECURSIVE TryRenderComponents(_, _, _, _, _, _, _, _)
TryRenderComponents(r, W, H, cmps, aorder, order, i, fault) ==
    IF r.err \/ i > Len(aorder) THEN r
    ELSE TryRenderComponents(
             IF aorder[i] = "root"
             THEN TryContainerRender(r, W, H, cmps, order, fault)
             ELSE TryLeafRender(r, W, H, cmps, aorder[i], fault),
             W, H, cmps, aorder, order, i + 1, fault)

\* Renderer::present: the grids are swapped, the commands are queued up to
\* the write that fails
try_present(cs, pcs, w, fault) ==
    LET p == render_to_terminal(cs, pcs, w)
        fails == fault.at = "io" /\ fault.k <= Len(p.out)
    IN [cells |-> p.cells, prev_cells |-> p.prev_cells,
        out |-> IF fails /\ fault.k >= 1 THEN SubSeq(p.out, 1, fault.k - 1) ELSE p.out,
        err |-> fails]

\* App::render
try_render(cs, pcs, o, W, H, cmps, aorder, order, fault) ==
    LET r == TryRenderComponents([cells |-> clear(cs), called |-> <<>>, err |-> FALSE],
                                 W, H, cmps, aorder, order, 1, fault)
    IN IF r.err
       THEN [cells |-> r.cells, prev_cells |-> pcs, out |-> o, called |-> r.called,
             presents |-> 0, err |-> TRUE]
       ELSE LET p == try_present(r.cells, pcs, W, fault)
            IN [cells |-> p.cells, prev_cells |-> p.prev_cells, out |-> p.out,
                called |-> r.called, presents |-> 1, err |-> p.err]

\* number of frames in one run of SpecFrame
MaxFrames == 2
\* the components that may be hidden when the frames are rendered
Hideable == {"root", "A", "T"}
FrameInit ==
    /\ \E hidden \in SUBSET Hideable :
          comps = [n \in DOMAIN AppTree |->
                     [AppTree[n] EXCEPT !.visible = n \notin hidden]]
    /\ childOrder \in {Inserted, Reverse(Inserted), <<"T", "A", "U", "B">>}
    /\ appOrder \in Orders(TopLevel)
    /\ running = TRUE
    /\ pc = "render"
    /\ queue = <<>>
    /\ tickLog = <<>>
    /\ nticks = 0
    /\ nsent = 0
    /\ geo = [kind |-> "frame", frames |-> 0, result |-> "none", fault |-> NoFault,
              called |-> <<>>, presents |-> 0, before |-> <<>>]
    /\ width = TermDim[1]
    /\ height = TermDim[2]
    /\ cells = NewGrid(TermDim[1], TermDim[2])
    /\ prev_cells = NewGrid(TermDim[1], TermDim[2])
    /\ out = <<>>
    /\ bufOp = [op |-> "new"]
    /\ hist = [NoHist EXCEPT !.after = NewGrid(TermDim[1], TermDim[2])]
    /\ pending = [resized |-> FALSE, touched |-> FALSE]
    /\ nops = 0

\* one call of App::render from the tick loop, `self.render()?`: an Err
\* ends run()
RenderCall(fault) ==
    /\ geo.kind = "frame" /\ pc = "render" /\ geo.frames < MaxFrames
    /\ LET f == try_render(cells, prev_cells, out, width, height, comps,
                           appOrder, childOrder, fault)
       IN /\ cells' = f.cells
          /\ prev_cells' = f.prev_cells
          /\ out' = f.out
          /\ geo' = [geo EXCEPT !.frames = @ + 1,
                                !.result = IF f.err THEN "Err" ELSE "Ok",
                                !.fault = fault, !.called = f.called,
                                !.presents = f.presents,
                                !.before = [prev_cells |-> prev_cells, out |-> out]]
          /\ pc' = IF f.err THEN "failed" ELSE "render"
    /\ UNCHANGED <<width, height, bufOp, hist, pending, nops>>
    /\ UNCHANGED evVars
    /\ UNCHANGED <<appOrder, queue, tickLog, nticks, nsent>>

RenderFrame == RenderCall(NoFault)
RenderFails == \E n \in {"root", "P", "A", "B"} : RenderCall(RenderFault(n))
PresentFails == \E k \in {0, 1, 3} : RenderCall(IoFault(k))

FrameNext == RenderFrame \/ RenderFails \/ PresentFails

SpecFrame == FrameInit /\ [][FrameNext]_vars

(***************************************************************************)
(* events/handler.rs: the mpsc channel between a producer calling          *)
(* send_event and the drain loop of App::run.  The channel is the sequence *)
(* "queue"; geo records what was sent and what next_event returned.        *)
(***************************************************************************)
\* EventHandler::send_event: `self.sender.send(event)`
send_event(q, ev) == Append(q, ev)

\* a receive that takes the newest event
next_event_Newest(q) ==
    IF q # <<>> THEN [event |-> <<q[Len(q)]>>, queue |-> SubSeq(q, 1, Len(q) - 1)]
    ELSE [event |-> <<>>, queue |-> q]

\* EventHandler::next_event: `recv_timeout(Duration::from_millis(0))`,
\* Some(event) is <<event>> and None (Timeout) is <<>>
next_event(q) ==
    IF q # <<>> THEN [event |-> <<Head(q)>>, queue |-> Tail(q)]
    ELSE [event |-> <<>>, queue |-> q]

\* number of events sent in one run of SpecChan
MaxChan == 4
ChanEvents == {"MouseMove", "MouseClick"}

ChanInit ==
    /\ geo = [kind |-> "chan", sent |-> <<>>, received |-> <<>>, polls |-> 0]
    /\ appOrder = AppVisitOrder
    /\ pc = "events"
    /\ queue = <<>>
    /\ tickLog = <<>>
    /\ nticks = 0
    /\ nsent = 0
    /\ EvIdle
    /\ BufIdle

\* the producer thread: one send_event call; the event carries the number
\* of the call
ProducerSend ==
    /\ geo.kind = "chan" /\ nsent < MaxChan
    /\ \E t \in ChanEvents :
          LET ev == [type |-> t, id |-> nsent + 1]
          IN /\ queue' = send_event(queue, ev)
             /\ geo' = [geo EXCEPT !.sent = Append(@, ev)]
    /\ nsent' = nsent + 1
    /\ UNCHANGED <<appOrder, pc, tickLog, nticks>>
    /\ UNCHANGED evVars
    /\ UNCHANGED bufVars

\* one round of `while let Some(event) = self.event_handler.next_event()?`
DrainPoll ==
    /\ geo.kind = "chan" /\ pc = "events"
    /\ LET r == next_event(queue)
       IN /\ queue' = r.queue
          /\ geo' = [geo EXCEPT !.received = @ \o r.event,
                                !.polls = IF r.event = <<>> THEN 0 ELSE @ + 1]
          /\ pc' = IF r.event = <<>> THEN "render" ELSE "events"
    /\ UNCHANGED <<appOrder, tickLog, nticks, nsent>>
    /\ UNCHANGED evVars
    /\ UNCHANGED bufVars

\* render, update and sleep of the tick, then the next tick
RestOfTick ==
    /\ geo.kind = "chan" /\ pc = "render"
    /\ pc' = "events"
    /\ UNCHANGED <<appOrder, queue, tickLog, nticks, nsent, geo>>
    /\ UNCHANGED evVars
    /\ UNCHANGED bufVars

ChanNext == ProducerSend \/ DrainPoll \/ RestOfTick

SpecChan == ChanInit /\ [][ChanNext]_vars

(***************************************************************************)
(* render/buffer.rs: the index arithmetic of get_cell / get_cell_mut,      *)
(* resize and render_to_terminal on grids of any u16 dimensions.  The      *)
(* grids themselves (Vec of width*height cells, sized in usize) are not    *)
(* built: only the index that is selected is computed.                     *)
(***************************************************************************)
\* `y * self.width + x` leaves the u16 range (panic with overflow checks)
IndexOverflows(x, y, w) == y * w > 65535 \/ U16(y * w) + x > 65535

\* the position render_to_terminal derives for the cell number index of
\* `self.cells.iter().enumerate()`: `(index as u16) % width`, `/ width`
ScanPosition(index, w) == <<U16(index) % w, U16(index) \div w>>

\* grid dimensions up to the end of the u16 range, and in-range positions
IndexDims == {<<3, 2>>, <<255, 257>>, <<256, 256>>, <<256, 257>>, <<300, 300>>, <<65535, 2>>}
IndexPos(d) == {0, 1, d[1] - 1} \X {0, 1, d[2] - 2, d[2] - 1}

IndexInit ==
    /\ \E d \in IndexDims : \E p \in IndexPos(d) :
          geo = [kind |-> "index", w |-> d[1], h |-> d[2], x |-> p[1], y |-> p[2],
                 op |-> "new", fault |-> FALSE, index |-> 0, pos |-> <<0, 0>>]
    /\ appOrder = AppVisitOrder
    /\ pc = "new"
    /\ queue = <<>>
    /\ tickLog = <<>>
    /\ nticks = 0
    /\ nsent = 0
    /\ EvIdle
    /\ BufIdle

\* get_cell(x, y) / get_cell_mut(x, y) (and set_cell through it): the index
\* of the cell that is selected
GetCellIndex ==
    /\ geo.kind = "index" /\ geo.x < geo.w /\ geo.y < geo.h
    /\ \E build \in Builds :
          IF IndexOverflows(geo.x, geo.y, geo.w) /\ build = "debug"
          THEN geo' = [geo EXCEPT !.op = "get_cell", !.fault = TRUE]
          ELSE geo' = [geo EXCEPT !.op = "get_cell", !.fault = FALSE,
                                  !.index = CellIndex(geo.x, geo.y, geo.w)]
    /\ UNCHANGED bufVars
    /\ UNCHANGED evVars
    /\ UNCHANGED appVars

\* resize to a taller grid of the same width: old_index of the copy loop
\* for the position (x, y)
ResizeIndex ==
    /\ geo.kind = "index"
    /\ \E build \in Builds :
          IF IndexOverflows(geo.x, geo.y, geo.w) /\ build = "debug"
          THEN geo' = [geo EXCEPT !.op = "resize", !.fault = TRUE]
          ELSE geo' = [geo EXCEPT !.op = "resize", !.fault = FALSE,
                                  !.index = CellIndex(geo.x, geo.y, geo.w)]
    /\ UNCHANGED bufVars
    /\ UNCHANGED evVars
    /\ UNCHANGED appVars

\* render_to_terminal reaching the cell of (x, y), which is number
\* y * width + x of the enumeration, when that cell differs
ScanIndex ==
    /\ geo.kind = "index"
    /\ geo' = [geo EXCEPT !.op = "present", !.fault = FALSE,
                          !.index = geo.y * geo.w + geo.x,
                          !.pos = ScanPosition(geo.y * geo.w + geo.x, geo.w)]
    /\ UNCHANGED bufVars
    /\ UNCHANGED evVars
    /\ UNCHANGED appVars

IndexNext == GetCellIndex \/ ResizeIndex \/ ScanIndex

SpecIndex == IndexInit /\ [][IndexNext]_vars

(***************************************************************************)
(* Properties of the frame buffer.                                         *)
(***************************************************************************)
\* C1: after draws followed by present(), the positions that receive a
\* character write are exactly the positions whose (character, style) in
\* the frame just drawn differ from the frame handed to the previous
\* present() (the all-blank grid before the first one).
C1_PresentWritesExactlyTheDiff ==
    (bufOp.op = "present" /\ hist.sameDims)
        => WrittenPositions = FrameDiff(hist.after, hist.before)

\* a second frame, drawn after the first one was presented, that differs
\* from the first frame in two cells: both are written
C1_Witness ==
    /\ bufOp.op = "present" /\ hist.sameDims /\ ~hist.idle /\ hist.n = 2
    /\ Cardinality(WrittenPositions) = 2
    /\ \E i \in DOMAIN hist.before : hist.before[i].ch = "X"
    /\ \E i \in DOMAIN hist.after : hist.after[i].ch = "X"

\* C2: a second present() with no draw, clear or resize since the previous
\* present() emits no cell write.
C2_SecondPresentEmitsNothing ==
    (bufOp.op = "present" /\ hist.n >= 2 /\ hist.idle) => WrittenPositions = {}

\* the command stream of the last present(), cut after each Print: the
\* indices of the Print commands, and the commands queued for the k-th
\* printed cell before its Print
PrintIndices == SelectSeq([i \in 1..Len(out) |-> i], LAMBDA i : out[i].op = "Print")
QueuedBefore(k) ==
    LET from == IF k = 1 THEN 1 ELSE PrintIndices[k - 1] + 1
    IN SubSeq(out, from, PrintIndices[k] - 1)
CursorMoved(k) == \E j \in DOMAIN QueuedBefore(k) : QueuedBefore(k)[j].op = "MoveTo"
StyleChanged(k) ==
    \E j \in DOMAIN QueuedBefore(k) :
        QueuedBefore(k)[j].op \in {"SetForegroundColor", "SetBackgroundColor", "SetAttribute"}
\* the cells the scan of the last present() found differing, in scan order
\* (after the swap the scanned grid is `cells`)
Scanned == DiffIndices(cells, prev_cells)
ScannedPos(k) == <<Scanned[k] % width, Scanned[k] \div width>>
ScannedStyle(k) == cells[Scanned[k] + 1].style
\* the tracked cursor before the k-th printed cell
TrackedCursor(k) ==
    IF k = 1 THEN <<0, 0>>
    ELSE LET p == ScannedPos(k - 1)
         IN IF p[1] + 1 >= width THEN <<0, p[2] + 1>> ELSE <<p[1] + 1, p[2]>>

\* C24: during present() a cursor move is emitted before a differing cell
\* if and only if the tracked cursor is not at that cell, and a
\* style-change sequence is emitted if and only if the cell's style
\* differs from the style of the previously emitted cell of the same
\* present() call.
C24_MoveAndStyleOnlyWhenNeeded ==
    bufOp.op = "present" =>
        /\ Len(PrintIndices) = Len(Scanned)
        /\ \A k \in DOMAIN Scanned :
              /\ CursorMoved(k) <=> ScannedPos(k) # TrackedCursor(k)
              /\ k > 1 => (StyleChanged(k) <=> ScannedStyle(k) # ScannedStyle(k - 1))

\* the cursor half of C24 alone
MoveOnlyWhenNeeded ==
    bufOp.op = "present" =>
        /\ Len(PrintIndices) = Len(Scanned)
        /\ \A k \in DOMAIN Scanned :
              CursorMoved(k) <=> ScannedPos(k) # TrackedCursor(k)

\* the frame drawn before the last present() (after the swap it is the
\* grid `prev_cells`), and the k-th character write of that present()
DrawnFrame == prev_cells
Written(k) == out[PrintIndices[k]]

\* C25: every write emitted by present() carries the character and the
\* style of the newly drawn cell at that position, never those of the
\* previously presented frame, so that the screen equals the drawn frame.
C25_WritesCarryDrawnFrame ==
    bufOp.op = "present" =>
        /\ Len(PrintIndices) = Len(Scanned)
        /\ \A k \in DOMAIN Scanned :
              Written(k).ch = DrawnFrame[Scanned[k] + 1].ch

\* the terminal's active style after the first n commands of the last
\* present(); it is the default at the start (the previous present() ended
\* with ResetColor if it set anything)
RECURSIVE TermStyle(_)
TermStyle(n) ==
    IF n = 0 THEN DefaultStyle
    ELSE LET st == TermStyle(n - 1)
             c == out[n]
         IN CASE c.op = "SetForegroundColor" -> [st EXCEPT !.fg = c.color]
              [] c.op = "SetBackgroundColor" -> [st EXCEPT !.bg = c.color]
              [] c.op = "SetAttribute" -> [st EXCEPT !.bold = TRUE]
              [] c.op = "ResetColor" -> DefaultStyle
              [] OTHER -> st

\* C28: whenever present() prints a cell's character, the terminal's
\* active style equals that cell's style; going from a cell with a color
\* or attribute set to a cell without it turns the color or attribute off.
C28_ActiveStyleIsCellStyle ==
    bufOp.op = "present" =>
        \A k \in DOMAIN PrintIndices :
            k \in DOMAIN Scanned => TermStyle(PrintIndices[k]) = ScannedStyle(k)

\* the general part of C10: after resize(w,h) both grids have w*h cells, the
\* cells of the overlap are unchanged and all other cells are the default
ResizeKeepsOverlap ==
    bufOp.op = "resize" =>
        /\ Len(cells) = width * height
        /\ Len(prev_cells) = width * height
        /\ \A x \in 0..(width - 1), y \in 0..(height - 1) :
              LET i == y * width + x + 1
                  j == y * bufOp.oldW + x + 1
              IN IF x < Min(bufOp.oldW, width) /\ y < Min(bufOp.oldH, height)
                 THEN cells[i] = bufOp.oldCells[j] /\ prev_cells[i] = bufOp.oldPrev[j]
                 ELSE cells[i] = DefaultCell /\ prev_cells[i] = DefaultCell

\* a 5x5 buffer with an X drawn at (2,2) has just been resized to w x h
ResizedFrom5x5WithX(w, h) ==
    /\ bufOp.op = "resize" /\ bufOp.oldW = 5 /\ bufOp.oldH = 5
    /\ bufOp.oldCells[2 * 5 + 2 + 1].ch = "X"
    /\ width = w /\ height = h

\* the character X is at (2,2) of the current grid
XAt22 ==
    /\ get_cell(cells, width, height, 2, 2) # <<>>
    /\ get_cell(cells, width, height, 2, 2)[1].ch = "X"

ViaContainer(ev) == ContainerHandle(comps, childOrder, ev)
\* the dispatch of ev by App::handle_event in the current state
ViaApp(ev) == handle_event(comps, childOrder, running, ev)
\* the children of "root" asked by a dispatch, in call order
AskedChildren(d) == SelectSeq(d.invoked, LAMBDA n : n \in Children)
\* the focused text inputs among the children of "root"
FocusedChildren == Focused(comps) \cap Children
\* the place of the child n in the visit order of "root"
Place(n) == CHOOSE i \in 1..Len(childOrder) : ChildVisitOrder(childOrder)[i] = n
Click55 == [type |-> "MouseClick", x |-> 5, y |-> 5]

\* C3: Container::handle_event asks its children in reverse insertion order
\* and stops at the first child that returns true; with A added before B,
\* both with bounds (0,0,10,10), a click at (5,5) is handled by B only and
\* A is never asked.
C3_ReverseInsertionOrder ==
    \A ev \in Events :
        LET d == ViaContainer(ev)
            asked == AskedChildren(d)
        IN /\ \A i \in DOMAIN asked : asked[i] = Reverse(Inserted)[i]
           /\ \A i \in DOMAIN asked : asked[i] \in d.handledBy => i = Len(asked)
           /\ (ev = Click55 /\ FocusedChildren = {})
                 => d.handledBy = {"B"} /\ "A" \notin SeqToSet(asked)

\* C4: for every mouse click dispatched by the application at most one
\* component of the whole tree reports it handled and changes state.
C4_AtMostOneHandlesClick ==
    \A ev \in ClickEvents :
        LET d == ViaApp(ev)
        IN /\ Cardinality(d.handledBy) <= 1
           /\ Cardinality({n \in Leaves : d.comps[n] # comps[n]}) <= 1

FirstFocused == CHOOSE t \in FocusedChildren : \A u \in FocusedChildren : Place(t) <= Place(u)

C7_ClickOutsideUnfocuses ==
    \A ev \in ClickEvents : \A t \in FocusedChildren :
        LET d == ViaContainer(ev)
        IN ~Hit(comps[t], ev) =>
              /\ ~d.comps[t].is_focused
              /\ t \in d.handledBy
              /\ \A n \in Children :
                    Place(n) > Place(t) =>
                        /\ n \notin SeqToSet(d.invoked)
                        /\ n \notin d.clicked
                        /\ d.comps[n] = comps[n]

\* what the code does give: the same, for a click that no child asked
\* before the focused TextInput has handled
ReachedInputUnfocuses ==
    \A ev \in ClickEvents : \A t \in FocusedChildren :
        LET d == ViaContainer(ev)
        IN (t \in SeqToSet(d.invoked) /\ ~Hit(comps[t], ev)) =>
              /\ ~d.comps[t].is_focused
              /\ t \in d.handledBy
              /\ \A n \in Children :
                    Place(n) > Place(t) =>
                        /\ n \notin SeqToSet(d.invoked)
                        /\ n \notin d.clicked
                        /\ d.comps[n] = comps[n]

\* C8: resize, quit, focus-gained, focus-lost, timer and custom events are
\* delivered to every component of the tree.
C8_BroadcastReachesAll ==
    \A t \in BroadcastTypes :
        SeqToSet(ViaApp([type |-> t]).invoked) = TopLevel \cup Children

\* C9: dispatching the same mouse click or mouse release twice in succession
\* leaves every component in the state that dispatching it once does.
C9_RedispatchChangesNothing ==
    \A ev \in ClickEvents \cup ReleaseEvents :
        LET once == ViaApp(ev)
            twice == handle_event(once.comps, childOrder, once.running, ev)
        IN twice.comps = once.comps

(***************************************************************************)
(* Properties of the tick loop.                                            *)
(***************************************************************************)
\* the order of the steps of a tick as C5 states it
StatedTickOrder == <<"drain", "update", "render", "present">>

\* C5: in every tick of App::run the steps occur in the order drain and
\* dispatch the queued events, layout/update, render, present; no frame is
\* rendered or presented in a tick before the update pass of that tick.
C5_UpdateBeforeRender ==
    /\ Len(tickLog) <= Len(StatedTickOrder)
    /\ \A i \in DOMAIN tickLog : tickLog[i] = StatedTickOrder[i]

\* C26: after any sequence of mouse clicks and key presses dispatched
\* through the container, at most one TextInput among its children is
\* focused.
C26_AtMostOneFocused == Cardinality(Focused(comps) \cap Children) <= 1

\* C27: a component whose visibility is false, and any component inside
\* an invisible container, never changes state because of an event (and
\* so never reports one handled): it stays as it was built; a click
\* inside an invisible Button does not set it active.
C27_HiddenIgnoresEvents ==
    \A n \in TopLevel \cup Children :
        (~comps[n].visible \/ (n \in Children /\ ~comps["root"].visible)) =>
            comps[n] = [BuiltTree[n] EXCEPT !.visible = comps[n].visible]

\* the tick loop is running a tick after a Quit event set running = false
InTick == pc \in {"events", "render", "update", "sleep"}
Quitted == InTick /\ ~running
TickSteps ==
    {<<"events", "render">>, <<"render", "update">>, <<"update", "sleep">>,
     <<"sleep", "done">>}
CompletedTick == <<"drain", "render", "present", "update">>

Target(o) ==
    {p \in (0..(width - 1)) \X (0..(height - 1)) :
        CASE o.op = "draw_char" -> p = <<o.x, o.y>>
          [] o.op = "draw_text" -> p[2] = o.y /\ p[1] >= o.x /\ p[1] < o.x + Len(o.text)
          [] o.op = "draw_border" ->
                /\ o.w >= 2 /\ o.h >= 2
                /\ p[1] >= o.x /\ p[1] < o.x + o.w /\ p[2] >= o.y /\ p[2] < o.y + o.h
                /\ (p[1] \in {o.x, o.x + o.w - 1} \/ p[2] \in {o.y, o.y + o.h - 1})
          [] OTHER -> p[1] >= o.x /\ p[1] < o.x + o.w /\ p[2] >= o.y /\ p[2] < o.y + o.h}

\* C11: draw_char, draw_text, draw_rect, draw_border and fill_area return
\* success for every argument value, without an arithmetic fault, and
\* change no cell other than the cells of their target that lie inside the
\* grid (nothing at all when the target lies outside the grid).
C11_DrawsNeverFaultAndStayInTarget ==
    "args" \in DOMAIN bufOp =>
        /\ ~bufOp.fault
        /\ \A p \in (0..(width - 1)) \X (0..(height - 1)) :
              cells[p[2] * width + p[1] + 1] # bufOp.oldCells[p[2] * width + p[1] + 1]
                  => p \in Target(bufOp.args)

(***************************************************************************)
(* Properties of the container layout.                                     *)
(***************************************************************************)
\* the content area of the container: the box minus the padding
ContentArea ==
    LET r == geo.box
        p == geo.padding
    IN Box(r.x + p[4], r.y + p[1],
           IF r.w > p[4] + p[2] THEN r.w - p[4] - p[2] ELSE 0,
           IF r.h > p[1] + p[3] THEN r.h - p[1] - p[3] ELSE 0)

\* C12: a Vertical container with n >= 1 children gives every child the
\* content width and the height floor(content_height / n) and stacks the
\* children downward from the content origin without a gap, so that
\* content_height mod n rows stay unassigned; Horizontal does the same
\* along the x axis.
C12_StackedEqualShares ==
    (geo.passes >= 1 /\ Len(geo.kids) >= 1) =>
        LET n == Len(geo.kids)
            c == ContentArea
        IN /\ geo.layout = "Vertical" =>
                /\ \A i \in 1..n :
                      geo.kids[i] = Box(c.x, c.y + (i - 1) * (c.h \div n), c.w, c.h \div n)
                /\ geo.kids[n].y + geo.kids[n].h = c.y + c.h - (c.h % n)
           /\ geo.layout = "Horizontal" =>
                /\ \A i \in 1..n :
                      geo.kids[i] = Box(c.x + (i - 1) * (c.w \div n), c.y, c.w \div n, c.h)
                /\ geo.kids[n].x + geo.kids[n].w = c.x + c.w - (c.w % n)

\* the container (0,0,40,30) with uniform padding 2 and 3 children, laid
\* out vertically: content area (2,2,36,26), children 8 rows high at rows
\* 2, 10 and 18, rows 26 and 27 unassigned
C12_Witness ==
    /\ geo.passes >= 1 /\ geo.layout = "Vertical"
    /\ geo.box = Box(0, 0, 40, 30) /\ geo.padding = <<2, 2, 2, 2>>
    /\ ContentArea = Box(2, 2, 36, 26)
    /\ geo.kids = <<Box(2, 2, 36, 8), Box(2, 10, 36, 8), Box(2, 18, 36, 8)>>

\* C13: a layout pass of an Absolute container leaves each child at its
\* position, clamped to the content width and height; so a pass does not
\* move a child whose position is already within the content extent, tick
\* after tick.
C13_AbsolutePassKeepsPositions ==
    (geo.passes >= 1 /\ geo.layout = "Absolute") =>
        \A i \in DOMAIN geo.kids :
            /\ geo.kids[i].x = Min(geo.before[i].x, ContentArea.w)
            /\ geo.kids[i].y = Min(geo.before[i].y, ContentArea.h)
            /\ (geo.before[i].x <= ContentArea.w /\ geo.before[i].y <= ContentArea.h)
                  => geo.kids[i] = geo.before[i]

\* C14: a layout pass in Grid mode gives every child the position and size
\* that a pass in Vertical mode gives it for the same bounds, padding and
\* children.
C14_GridIsVertical ==
    (geo.passes >= 1 /\ geo.layout = "Grid") =>
        geo.kids = Arrange("Vertical", geo.box, geo.padding, geo.before,
                           Identity(Len(geo.before)))

\* a Grid container with three children has been laid out: they sit at
\* three different rows
C14_Witness ==
    /\ geo.passes >= 1 /\ geo.layout = "Grid" /\ Len(geo.kids) = 3
    /\ geo.kids[1].y < geo.kids[2].y /\ geo.kids[2].y < geo.kids[3].y

(***************************************************************************)
(* components/layout.rs, grid::GridConfig.  All arithmetic of              *)
(* calculate_cells is plain u16 arithmetic: "overflow" records that a      *)
(* subtraction, multiplication or addition left the u16 range (panic with  *)
(* overflow checks, wrap-around without), "divzero" that a division by     *)
(* zero was reached (panic in every build).                                *)
(***************************************************************************)
\* container - gap * (count - 1), then the division by count
GridExtent(container, gap, count) ==
    LET less == count - 1
        total_gap == gap * U16(less)
        rest == container - U16(total_gap)
    IN [v |-> IF count = 0 THEN 0 ELSE U16(rest) \div count,
        overflow |-> less < 0 \/ total_gap > 65535 \/ rest < 0,
        divzero |-> count = 0]

\* the cell of row "row" and column "col" (both counted from 0)
GridCell(row, col, cell_width, cell_height, column_gap, row_gap) ==
    <<U16(col * U16(cell_width + column_gap)), U16(row * U16(cell_height + row_gap)),
      cell_width, cell_height>>

GridCellOverflows(row, col, cell_width, cell_height, column_gap, row_gap) ==
    \/ cell_width + column_gap > 65535
    \/ col * U16(cell_width + column_gap) > 65535
    \/ cell_height + row_gap > 65535
    \/ row * U16(cell_height + row_gap) > 65535

\* the two nested loops: rows outside, columns inside
GridCells(columns, rows, cell_width, cell_height, column_gap, row_gap) ==
    [k \in 1..(columns * rows) |->
        GridCell((k - 1) \div columns, (k - 1) % columns,
                 cell_width, cell_height, column_gap, row_gap)]

\* GridConfig::calculate_cells
calculate_cells(g, container_width, container_height) ==
    LET cw == GridExtent(container_width, g.column_gap, g.columns)
        ch == GridExtent(container_height, g.row_gap, g.rows)
    IN IF cw.divzero \/ ch.divzero
       THEN [cells |-> <<>>, overflow |-> cw.overflow \/ ch.overflow, divzero |-> TRUE]
       ELSE [cells |-> GridCells(g.columns, g.rows, cw.v, ch.v, g.column_gap, g.row_gap),
             overflow |-> \/ cw.overflow
                          \/ ch.overflow
                          \/ \E row \in 0..(g.rows - 1), col \in 0..(g.columns - 1) :
                                GridCellOverflows(row, col, cw.v, ch.v,
                                                  g.column_gap, g.row_gap),
             divzero |-> FALSE]

\* GridConfig::new and the with_* builders
GridConfig_new(columns, rows) ==
    [columns |-> columns, rows |-> rows, column_gap |-> 0, row_gap |-> 0]
with_column_gap(g, gap) == [g EXCEPT !.column_gap = gap]
with_row_gap(g, gap) == [g EXCEPT !.row_gap = gap]
with_gap(g, gap) == [g EXCEPT !.column_gap = gap, !.row_gap = gap]

\* largest number of columns and of rows of a grid
MaxCols == 3
MaxRows == 3
GridGaps == {0, 1, 12}
GridContainers == {<<10, 7>>, <<40, 30>>, <<0, 0>>}

GridInit ==
    /\ \E columns \in 0..MaxCols, rows \in 0..MaxRows, c \in GridContainers :
          geo = [kind |-> "grid", config |-> GridConfig_new(columns, rows),
                 container_width |-> c[1], container_height |-> c[2],
                 returned |-> FALSE, panicked |-> FALSE, wrapped |-> FALSE,
                 cells |-> <<>>]
    /\ appOrder = AppVisitOrder
    /\ pc = "new"
    /\ queue = <<>>
    /\ tickLog = <<>>
    /\ nticks = 0
    /\ nsent = 0
    /\ EvIdle
    /\ BufIdle

GridBuilding == geo.kind = "grid" /\ ~geo.returned /\ ~geo.panicked

WithColumnGap ==
    /\ GridBuilding
    /\ \E gap \in GridGaps : geo' = [geo EXCEPT !.config = with_column_gap(@, gap)]
    /\ UNCHANGED bufVars
    /\ UNCHANGED evVars
    /\ UNCHANGED appVars

WithRowGap ==
    /\ GridBuilding
    /\ \E gap \in GridGaps : geo' = [geo EXCEPT !.config = with_row_gap(@, gap)]
    /\ UNCHANGED bufVars
    /\ UNCHANGED evVars
    /\ UNCHANGED appVars

WithGap ==
    /\ GridBuilding
    /\ \E gap \in GridGaps : geo' = [geo EXCEPT !.config = with_gap(@, gap)]
    /\ UNCHANGED bufVars
    /\ UNCHANGED evVars
    /\ UNCHANGED appVars

\* a call of GridConfig::calculate_cells: it returns the cells, or it
\* panics (division by zero; u16 overflow in a build with overflow checks)
CalculateCells ==
    /\ GridBuilding
    /\ LET r == calculate_cells(geo.config, geo.container_width, geo.container_height)
       IN \E build \in Builds :
            IF r.divzero \/ (r.overflow /\ build = "debug")
            THEN geo' = [geo EXCEPT !.panicked = TRUE]
            ELSE geo' = [geo EXCEPT !.returned = TRUE, !.wrapped = r.overflow,
                                    !.cells = r.cells]
    /\ UNCHANGED bufVars
    /\ UNCHANGED evVars
    /\ UNCHANGED appVars

GridNext == WithColumnGap \/ WithRowGap \/ WithGap \/ CalculateCells

SpecGrid == GridInit /\ [][GridNext]_vars

(***************************************************************************)
(* render/context.rs, RenderContext: the current component and the         *)
(* component stack.  "calls" records the calls made so far.                *)
(***************************************************************************)
\* RenderContext::new
RenderContext_new ==
    [current_component |-> <<>>, component_stack |-> <<>>]

\* RenderContext::set_current_component
set_current_component(ctx, name) ==
    [current_component |-> <<name>>,
     component_stack |-> Append(ctx.component_stack, name)]

\* RenderContext::clear_current_component
clear_current_component(ctx) ==
    [current_component |-> <<>>,
     component_stack |-> IF ctx.component_stack # <<>>
                         THEN SubSeq(ctx.component_stack, 1, Len(ctx.component_stack) - 1)
                         ELSE ctx.component_stack]

\* RenderContext::current_component, hierarchy_depth
current_component(ctx) == ctx.current_component
hierarchy_depth(ctx) == Len(ctx.component_stack)

\* number of set/clear calls in one run of SpecCtx
MaxCalls == 4
CtxNames == {"root", "child"}

CtxInit ==
    /\ geo = [kind |-> "ctx", ctx |-> RenderContext_new, calls |-> <<>>]
    /\ appOrder = AppVisitOrder
    /\ pc = "new"
    /\ queue = <<>>
    /\ tickLog = <<>>
    /\ nticks = 0
    /\ nsent = 0
    /\ EvIdle
    /\ BufIdle

SetCurrentComponent ==
    /\ geo.kind = "ctx" /\ Len(geo.calls) < MaxCalls
    /\ \E name \in CtxNames :
          geo' = [geo EXCEPT !.ctx = set_current_component(@, name),
                             !.calls = Append(@, <<"set", name>>)]
    /\ UNCHANGED bufVars
    /\ UNCHANGED evVars
    /\ UNCHANGED appVars

ClearCurrentComponent ==
    /\ geo.kind = "ctx" /\ Len(geo.calls) < MaxCalls
    /\ geo' = [geo EXCEPT !.ctx = clear_current_component(@),
                          !.calls = Append(@, <<"clear">>)]
    /\ UNCHANGED bufVars
    /\ UNCHANGED evVars
    /\ UNCHANGED appVars

CtxNext == SetCurrentComponent \/ ClearCurrentComponent

SpecCtx == CtxInit /\ [][CtxNext]_vars

(***************************************************************************)
(* Properties of the flex and grid calculators.                            *)
(***************************************************************************)
\* C15: the geometry calculators are total: every call completes and
\* yields one defined box per item, without u16 underflow or overflow and
\* without division by zero, whatever the sizes of container, items and
\* gaps.
C15_GeometryIsTotal ==
    geo.kind \in {"flex", "grid"} =>
        /\ ~geo.panicked
        /\ geo.returned => ~geo.wrapped
        /\ (geo.returned /\ geo.kind = "flex") => Len(geo.positions) = Len(geo.items)

\* main-axis view of the flex call of the current state
FlexExtent == IF geo.direction = "Row" THEN geo.container_width ELSE geo.container_height
MainOf(q) == IF geo.direction = "Row" THEN q[1] ELSE q[2]
RECURSIVE SumOf(_)
SumOf(q) == IF q = <<>> THEN 0 ELSE Head(q) + SumOf(Tail(q))
FlexFits ==
    SumOf([i \in DOMAIN geo.items |-> MainOf(geo.items[i])])
        + geo.gaps * (Len(geo.items) - 1) <= FlexExtent

\* C16: with justify SpaceBetween and two or more items that fit, the
\* first item is at main-axis offset 0 and the last item ends at the
\* trailing edge of the container; items [(10,5),(15,5),(10,5)] in a
\* (50,10) row with gap 2 and align Center give (0,2,10,5), (17,2,15,5),
\* (40,2,10,5).
C16_SpaceBetweenIsFlush ==
    (geo.kind = "flex" /\ geo.returned /\ geo.justify = "SpaceBetween"
       /\ Len(geo.items) >= 2 /\ FlexFits) =>
        LET n == Len(geo.items)
        IN /\ MainOf(geo.positions[1]) = 0
           /\ MainOf(geo.positions[n]) = FlexExtent - MainOf(geo.items[n])
           /\ (/\ geo.items = <<<<10, 5>>, <<15, 5>>, <<10, 5>>>>
               /\ geo.container_width = 50 /\ geo.container_height = 10
               /\ geo.direction = "Row" /\ geo.gaps = 2 /\ geo.align = "Center")
                 => geo.positions = <<<<0, 2, 10, 5>>, <<17, 2, 15, 5>>, <<40, 2, 10, 5>>>>

\* C17: calculate_layout returns for justify SpaceAround the list of boxes
\* it returns for justify SpaceEvenly on the same container, direction,
\* alignment, items and gap.
C17_SpaceAroundIsSpaceEvenly ==
    (geo.kind = "flex" /\ geo.returned /\ geo.justify = "SpaceAround") =>
        geo.positions =
            calculate_layout(geo.container_width, geo.container_height, geo.direction,
                             "SpaceEvenly", geo.align, geo.items, geo.gaps).positions

\* closed form of a grid over integers: cell extent and cell list
GridShare(container, gap, count) == (container - gap * (count - 1)) \div count
GridClosedForm(g, W, H) ==
    LET cw == GridShare(W, g.column_gap, g.columns)
        ch == GridShare(H, g.row_gap, g.rows)
    IN [k \in 1..(g.columns * g.rows) |->
          LET r == (k - 1) \div g.columns
              c == (k - 1) % g.columns
          IN <<c * (cw + g.column_gap), r * (ch + g.row_gap), cw, ch>>]
GridCalled == geo.kind = "grid" /\ (geo.returned \/ geo.panicked)

\* C18: calculate_cells(W,H) returns exactly columns*rows cells in
\* row-major order, all of size (cw,ch) with cw = (W - column_gap *
\* (columns-1)) / columns and ch = (H - row_gap*(rows-1)) / rows, the cell
\* of row r and column c at (c*(cw+column_gap), r*(ch+row_gap)).
C18_GridCellsClosedForm ==
    GridCalled =>
        /\ geo.returned
        /\ Len(geo.cells) = geo.config.columns * geo.config.rows
        /\ geo.cells = GridClosedForm(geo.config, geo.container_width, geo.container_height)

\* the closed form does hold for a grid with at least one column and row
\* whose gaps fit the container
GridInRange ==
    /\ geo.config.columns >= 1 /\ geo.config.rows >= 1
    /\ geo.config.column_gap * (geo.config.columns - 1) <= geo.container_width
    /\ geo.config.row_gap * (geo.config.rows - 1) <= geo.container_height
GridCellsClosedFormInRange ==
    (GridCalled /\ GridInRange) =>
        /\ geo.returned
        /\ geo.cells = GridClosedForm(geo.config, geo.container_width, geo.container_height)

\* C19: GridConfig::new(2,3).with_gap(1).calculate_cells(10,7) returns six
\* cells, all of size (4,2), the first three being (0,0,4,2), (5,0,4,2)
\* and (0,3,4,2).
C19_TwoByThreeOverTenBySeven ==
    (/\ GridCalled
     /\ geo.config = with_gap(GridConfig_new(2, 3), 1)
     /\ geo.container_width = 10 /\ geo.container_height = 7) =>
        /\ geo.returned
        /\ Len(geo.cells) = 6
        /\ \A k \in 1..6 : geo.cells[k][3] = 4 /\ geo.cells[k][4] = 2
        /\ SubSeq(geo.cells, 1, 3) = <<<<0, 0, 4, 2>>, <<5, 0, 4, 2>>, <<0, 3, 4, 2>>>>

(***************************************************************************)
(* Properties of the render context.                                       *)
(***************************************************************************)
\* C21: the current component is the top of the component stack: after
\* set_current_component(parent), set_current_component(child) and one
\* clear_current_component(), current_component() is the parent and
\* hierarchy_depth() is 1; after any sequence of set/clear calls,
\* current_component() is the last name pushed and not yet cleared, or
\* none when the stack is empty.
C21_CurrentIsTopOfStack ==
    geo.kind = "ctx" =>
        /\ current_component(geo.ctx) =
              IF geo.ctx.component_stack = <<>> THEN <<>>
              ELSE <<geo.ctx.component_stack[Len(geo.ctx.component_stack)]>>
        /\ geo.calls = <<<<"set", "root">>, <<"set", "child">>, <<"clear">>>> =>
              /\ current_component(geo.ctx) = <<"root">>
              /\ hierarchy_depth(geo.ctx) = 1

(***************************************************************************)
(* Properties of the error paths of a frame.                               *)
(***************************************************************************)
\* the render calls of a whole frame, in order
RECURSIVE FrameOrder(_, _)
FrameOrder(aorder, i) ==
    IF i > Len(aorder) THEN <<>>
    ELSE (IF aorder[i] = "root"
          THEN <<"root">> \o (IF comps["root"].visible
                              THEN SelectSeq(childOrder, LAMBDA n : comps[n].visible)
                              ELSE <<>>)
          ELSE <<aorder[i]>>) \o FrameOrder(aorder, i + 1)
IsPrefix(p, q) == Len(p) <= Len(q) /\ SubSeq(q, 1, Len(p)) = p
FrameFailed == geo.kind = "frame" /\ geo.frames >= 1 /\ geo.fault.at # "none"
RenderErred ==
    /\ FrameFailed /\ geo.fault.at = "render"
    /\ \E i \in DOMAIN FrameOrder(appOrder, 1) : FrameOrder(appOrder, 1)[i] = geo.fault.name

\* C22: if a component's render returns an error, App::render returns the
\* error: the failing render is the last one called, no later component is
\* rendered, present() is not run (no swap, no output) and no render is
\* repeated; if a write of present() fails the error is returned after the
\* one present() call with the output cut at the failed write; a returned
\* error ends the run.
C22_ErrorsPropagate ==
    /\ RenderErred =>
          /\ geo.result = "Err" /\ pc = "failed"
          /\ IsPrefix(geo.called, FrameOrder(appOrder, 1))
          /\ geo.called[Len(geo.called)] = geo.fault.name
          /\ geo.presents = 0
          /\ prev_cells = geo.before.prev_cells /\ out = geo.before.out
    /\ (geo.kind = "frame" /\ geo.result = "Err" /\ geo.fault.at = "io") =>
          /\ pc = "failed"
          /\ geo.called = FrameOrder(appOrder, 1)
          /\ geo.presents = 1
          /\ LET whole == render_to_terminal(prev_cells, geo.before.prev_cells, width).out
             IN /\ IsPrefix(out, whole)
                /\ geo.fault.k >= 1 => Len(out) = geo.fault.k - 1
    /\ (geo.kind = "frame" /\ geo.result = "Ok") =>
          geo.fault.at = "none" \/ ~RenderErred

\* the render of a child failed after the first frame, with components
\* left to render after it
C22_Witness ==
    /\ RenderErred
    /\ geo.frames = 2
    /\ geo.fault.name \in Children
    /\ Len(geo.called) < Len(FrameOrder(appOrder, 1))

C29_IndexNeverWraps ==
    (geo.kind = "index" /\ geo.op # "new") =>
        /\ ~geo.fault
        /\ geo.index = geo.y * geo.w + geo.x
        /\ geo.op = "present" => geo.pos = <<geo.x, geo.y>>

\* the addressing is right on every grid of at most 65,536 cells, where
\* the index of the last cell still fits 16 bits
IndexFits == geo.w * geo.h <= 65536
IndexRightWhenFits ==
    (geo.kind = "index" /\ geo.op # "new" /\ IndexFits) =>
        /\ ~geo.fault
        /\ geo.index = geo.y * geo.w + geo.x
        /\ geo.op = "present" => geo.pos = <<geo.x, geo.y>>

(***************************************************************************)
(* Properties of the text cursor.                                          *)
(***************************************************************************)
\* C30: after any sequence of key presses on a focused TextInput and of
\* set_text calls, 0 <= cursor_position <= length of the text and the
\* cursor lies on a character boundary, also when inserted characters
\* occupy more than one byte, so that no insert or delete faults.
C30_CursorOnCharBoundary ==
    geo.kind = "text" =>
        /\ ~geo.panicked
        /\ 0 <= geo.input.cursor_position
        /\ geo.input.cursor_position <= Len(geo.input.text)
        /\ is_char_boundary(geo.input.text, geo.input.cursor_position)

\* the range half of C30 alone
CursorInRange ==
    geo.kind = "text" =>
        /\ 0 <= geo.input.cursor_position
        /\ geo.input.cursor_position <= Len(geo.input.text)

====
